---- MODULE Spec2Model ----
(***************************************************************************)
(* Model of the CLI orchestrator core of binks-agent-orchestrator:         *)
(*   - ConvergenceCriteria.should_stop      (orchestrator.py)              *)
(*   - Agent.invoke / Agent._default_parser (agent.py)                     *)
(*   - MemoryBank                           (memory_bank.py)               *)
(*   - Orchestrator.run_moa_workflow        (orchestrator.py)              *)
(*                                                                         *)
(* The specifications share the variables:                                 *)
(*   SpecStop   one call of should_stop on inputs drawn from bounded sets  *)
(*   SpecAgent  one call of Agent.invoke on a backend result               *)
(*   SpecLog    the Conversation and Orchestrator operations, in any order *)
(*   SpecBank   the MemoryBank operations on one directory, in any order   *)
(*   SpecDoc    the operations on the active-context document             *)
(*   SpecRace   two writers appending to one Memory Bank directory         *)
(*   SpecResume run_moa_workflow on the Memory Bank of an earlier run      *)
(*   Spec       one run of run_moa_workflow, one action per program step   *)
(***************************************************************************)
EXTENDS Integers, Sequences, FiniteSets, TLC

VARIABLES
    stop_args,        \* SpecStop: the arguments of the should_stop call
    stop_result,      \* SpecStop: the tuple it returned, Nothing before the call
    invoke_args,      \* SpecAgent: context and backend result of the invoke call
    invoke_result,    \* SpecAgent: what invoke returned, Nothing before the call
    clock,            \* time.time(), in ticks of 1 / TicksPerSecond seconds
    max_turns,        \* Orchestrator.max_turns
    heap,             \* the Conversation objects made by create_conversation
    conversations,    \* Orchestrator._conversations: id -> reference
    frame,            \* the run_workflow / run_loop call under way, or Nothing
    returned,         \* SpecLog: what the last operation returned
    criteria,         \* the ConvergenceCriteria object
    goal,             \* run_moa_workflow's goal argument
    critic_given,     \* whether a separate critic Agent was passed
    pc,               \* position inside run_moa_workflow
    iteration,        \* local variable iteration
    conversation,     \* the Conversation object: turns, status, metadata
    current_status,   \* Orchestrator._current_status
    memory_bank,      \* the three MemoryBank files
    context,          \* local variable context (result of read_context)
    plan_response,    \* local variable plan_response
    impl_response,    \* local variable impl_response
    review_response,  \* local variable review_response
    fix_response,     \* local variable fix_response
    stop,             \* (should_stop, reason) of the last convergence check
    calls,            \* log of Agent.invoke calls, in call order
    compact_calls,    \* number of MemoryBank.compact invocations
    failures,         \* number of backend results with success = false so far
    writers           \* SpecRace: each writer's position in its append call

stop_vars == <<stop_args, stop_result>>
agent_vars == <<invoke_args, invoke_result>>
\* the variables of the specifications of single operations
race_vars == <<writers>>
unit_vars == <<stop_vars, agent_vars, race_vars>>
log_vars == <<clock, max_turns, heap, conversations, frame, returned>>
moa_vars == <<criteria, goal, critic_given, pc, iteration, conversation,
              current_status, memory_bank, context, plan_response,
              impl_response, review_response, fix_response, stop, calls,
              compact_calls, failures>>
vars == <<stop_args, stop_result, invoke_args, invoke_result, clock, max_turns,
          heap, conversations, frame, returned, criteria, goal, critic_given, pc, iteration,
          conversation, current_status, memory_bank, context, plan_response,
          impl_response, review_response, fix_response, stop, calls,
          compact_calls, failures, writers>>

\* Python's None, for values that are otherwise strings
None == "None"

\* An optional record or tuple is a sequence of length at most one:
\* Nothing is Python's None (or a name not yet bound), Some(x) holds x.
Nothing == <<>>
Some(x) == <<x>>
get(o) == o[1]

(***************************************************************************)
(* Bounds of the model                                                     *)
(***************************************************************************)
\* max_iterations ranges over 0..MaxIterations
MaxIterations == 3
\* append_pattern is called while the file holds fewer entries than this
MaxPatterns == 2
\* at most this many backend calls of one run return success = false
MaxFailures == 1

Min(a, b) == IF a < b THEN a ELSE b

(***************************************************************************)
(* Texts.  A text is named by a TLA+ string; chars(t) is its sequence of   *)
(* characters, which is what the Python code slices, measures and scans.   *)
(***************************************************************************)
Texts == {"", "X", "plan", "code", "fixed", "VERDICT: PASS", "VERDICT: FAIL",
          "NEEDS_REVISION", "the tests passed successfully", "Y"}

\* Further response texts for the verdict parser: labelled tokens in
\* several spellings, bare tokens, prose, and texts longer than the tail
\* the parser inspects
ParserTexts ==
    {"looks good\nVERDICT:PASS",
     "Verdict: Pass",
     "verdict:fail",
     "VERDICT: FAIL\nPASS",
     "VERDICT: PASS\nFAIL",
     "NEEDS_REVISION VERDICT: FAIL",
     "VERDICT: FAIL then VERDICT: PASS",
     "VERDICT:PASS NEEDS_REVISION\nFAIL",
     "PASS",
     "all good\nFAIL\n",
     "pass",
     "  PASS  \n",
     "we could not bypass",
     "tests:\npassing now",
     "checks\nfailures: none found",
     "it may fail sometimes",
     "the build did not pass.",
     "NEEDS_REVISION\nPASS",
     "needs_revision please",
     "PASS\nxxxxxxxxxxxxxxxxxxxxxxxxxxxxxxxxxxxxxxxxxxxxxxxxxxxxxxxxxxxxxxxxxxxxxxxxxxxxxxxxxxxxxxxxxxxxxxxxxxxx",
     "FAIL xxxxxxxxxxxxxxxxxxxxxxxxxxxxxxxxxxxxxxxxxxxxxxxxxxxxxxxxxxxxxxxxxxxxxxxxxxxxxxxxxxxxxxxxxxxxxxxxxxxx",
     "NEEDS_REVISION xxxxxxxxxxxxxxxxxxxxxxxxxxxxxxxxxxxxxxxxxxxxxxxxxxxxxxxxxxxxxxxxxxxxxxxxxxxxxxxxxxxxxxxxxxxxxxxxxxxx",
     "xxxxxxxxxxxxxxxxxxxxxxxxxxxxxxxxxxxxxxxxxxxxxxxxxxxxxxxxxxxxxxxxxxxxxxxxxxxxxxxxxxxxxxxxxxxxxxxxxxxx\nPASS",
     "\nPASSxxxxxxxxxxxxxxxxxxxxxxxxxxxxxxxxxxxxxxxxxxxxxxxxxxxxxxxxxxxxxxxxxxxxxxxxxxxxxxxxxxxxxxxxxxxxxxxxx",
     "\nPASSxxxxxxxxxxxxxxxxxxxxxxxxxxxxxxxxxxxxxxxxxxxxxxxxxxxxxxxxxxxxxxxxxxxxxxxxxxxxxxxxxxxxxxxxxxxxxxxx",
     "VERDICT: PASSxxxxxxxxxxxxxxxxxxxxxxxxxxxxxxxxxxxxxxxxxxxxxxxxxxxxxxxxxxxxxxxxxxxxxxxxxxxxxxxxxxxxxxxxxxxxxxxxxxxx"}

\* Reviews that hold a labelled PASS and a labelled FAIL, in either order:
\* one that quotes the instruction of the review prompt and then ends with
\* VERDICT: FAIL, and one that ends with the PASS label
BothLabelTexts ==
    {"VERDICT: PASS or VERDICT: FAIL\nVERDICT: FAIL",
     "VERDICT: FAIL then VERDICT: PASS"}

\* a run of n filler characters
Xs(n) == [i \in 1..n |-> "x"]

chars(t) ==
    CASE t = "" -> <<>>
      [] t = "X" -> <<"X">>
      [] t = "Y" -> <<"Y">>
      [] t = "P" -> <<"P">>
      [] t = "Q" -> <<"Q">>
      [] t = "plan" -> <<"p", "l", "a", "n">>
      [] t = "code" -> <<"c", "o", "d", "e">>
      [] t = "fixed" -> <<"f", "i", "x", "e", "d">>
      [] t = "VERDICT: PASS" ->
            <<"V", "E", "R", "D", "I", "C", "T", ":", " ", "P", "A", "S", "S">>
      [] t = "VERDICT: FAIL" ->
            <<"V", "E", "R", "D", "I", "C", "T", ":", " ", "F", "A", "I", "L">>
      [] t = "NEEDS_REVISION" ->
            <<"N", "E", "E", "D", "S", "_", "R", "E", "V", "I", "S", "I", "O", "N">>
      [] t = "VERDICT: PASS or VERDICT: FAIL\nVERDICT: FAIL" ->
            <<"V", "E", "R", "D", "I", "C", "T", ":", " ", "P",
              "A", "S", "S", " ", "o", "r", " ", "V", "E", "R",
              "D", "I", "C", "T", ":", " ", "F", "A", "I", "L",
              "\n", "V", "E", "R", "D", "I", "C", "T", ":", " ",
              "F", "A", "I", "L">>
      [] t = "## " ->
            <<"#", "#", " ">>
      [] t = "# Active Context" ->
            <<"#", " ", "A", "c", "t", "i", "v", "e", " ", "C",
              "o", "n", "t", "e", "x", "t">>
      [] t = "_Last updated: " ->
            <<"_", "L", "a", "s", "t", " ", "u", "p", "d", "a",
              "t", "e", "d", ":", " ">>
      [] t = "Current State" ->
            <<"C", "u", "r", "r", "e", "n", "t", " ", "S", "t",
              "a", "t", "e">>
      [] t = "- Status: INITIALIZED" ->
            <<"-", " ", "S", "t", "a", "t", "u", "s", ":", " ",
              "I", "N", "I", "T", "I", "A", "L", "I", "Z", "E",
              "D">>
      [] t = "- Phase: PLANNING" ->
            <<"-", " ", "P", "h", "a", "s", "e", ":", " ", "P",
              "L", "A", "N", "N", "I", "N", "G">>
      [] t = "- Iteration: 0" ->
            <<"-", " ", "I", "t", "e", "r", "a", "t", "i", "o",
              "n", ":", " ", "0">>
      [] t = "What We're Working On" ->
            <<"W", "h", "a", "t", " ", "W", "e", "'", "r", "e",
              " ", "W", "o", "r", "k", "i", "n", "g", " ", "O",
              "n">>
      [] t = "(To be updated by agents)" ->
            <<"(", "T", "o", " ", "b", "e", " ", "u", "p", "d",
              "a", "t", "e", "d", " ", "b", "y", " ", "a", "g",
              "e", "n", "t", "s", ")">>
      [] t = "Recent Progress" ->
            <<"R", "e", "c", "e", "n", "t", " ", "P", "r", "o",
              "g", "r", "e", "s", "s">>
      [] t = "(Empty - just started)" ->
            <<"(", "E", "m", "p", "t", "y", " ", "-", " ", "j",
              "u", "s", "t", " ", "s", "t", "a", "r", "t", "e",
              "d", ")">>
      [] t = "Blockers" ->
            <<"B", "l", "o", "c", "k", "e", "r", "s">>
      [] t = "(None yet)" ->
            <<"(", "N", "o", "n", "e", " ", "y", "e", "t", ")">>
      [] t = "Next Steps" ->
            <<"N", "e", "x", "t", " ", "S", "t", "e", "p", "s">>
      [] t = "1. Generate implementation plan" ->
            <<"1", ".", " ", "G", "e", "n", "e", "r", "a", "t",
              "e", " ", "i", "m", "p", "l", "e", "m", "e", "n",
              "t", "a", "t", "i", "o", "n", " ", "p", "l", "a",
              "n">>
      [] t = "Next" ->
            <<"N", "e", "x", "t">>
      [] t = "Notes" ->
            <<"N", "o", "t", "e", "s">>
      [] t = "see ## Notes" ->
            <<"s", "e", "e", " ", "#", "#", " ", "N", "o", "t",
              "e", "s">>
      [] t = "the tests passed successfully" ->
            <<"t", "h", "e", " ", "t", "e", "s", "t", "s", " ",
              "p", "a", "s", "s", "e", "d", " ",
              "s", "u", "c", "c", "e", "s", "s", "f", "u", "l", "l", "y">>
      [] t = "looks good\nVERDICT:PASS" ->
            <<"l", "o", "o", "k", "s", " ", "g", "o", "o", "d", "\n", "V", "E", "R", "D", "I", "C", "T", ":", "P", "A", "S", "S">>
      [] t = "Verdict: Pass" ->
            <<"V", "e", "r", "d", "i", "c", "t", ":", " ", "P", "a", "s", "s">>
      [] t = "verdict:fail" ->
            <<"v", "e", "r", "d", "i", "c", "t", ":", "f", "a", "i", "l">>
      [] t = "VERDICT: FAIL\nPASS" ->
            <<"V", "E", "R", "D", "I", "C", "T", ":", " ", "F", "A", "I", "L", "\n", "P", "A", "S", "S">>
      [] t = "VERDICT: PASS\nFAIL" ->
            <<"V", "E", "R", "D", "I", "C", "T", ":", " ", "P", "A", "S", "S", "\n", "F", "A", "I", "L">>
      [] t = "NEEDS_REVISION VERDICT: FAIL" ->
            <<"N", "E", "E", "D", "S", "_", "R", "E", "V", "I", "S", "I", "O", "N", " ", "V", "E", "R", "D", "I", "C", "T", ":", " ", "F", "A", "I", "L">>
      [] t = "VERDICT: FAIL then VERDICT: PASS" ->
            <<"V", "E", "R", "D", "I", "C", "T", ":", " ", "F", "A", "I", "L", " ", "t", "h", "e", "n", " ", "V", "E", "R", "D", "I", "C", "T", ":", " ", "P", "A", "S", "S">>
      [] t = "VERDICT:PASS NEEDS_REVISION\nFAIL" ->
            <<"V", "E", "R", "D", "I", "C", "T", ":", "P", "A", "S", "S", " ", "N", "E", "E", "D", "S", "_", "R", "E", "V", "I", "S", "I", "O", "N", "\n", "F", "A", "I", "L">>
      [] t = "PASS" ->
            <<"P", "A", "S", "S">>
      [] t = "all good\nFAIL\n" ->
            <<"a", "l", "l", " ", "g", "o", "o", "d", "\n", "F", "A", "I", "L", "\n">>
      [] t = "pass" ->
            <<"p", "a", "s", "s">>
      [] t = "  PASS  \n" ->
            <<" ", " ", "P", "A", "S", "S", " ", " ", "\n">>
      [] t = "we could not bypass" ->
            <<"w", "e", " ", "c", "o", "u", "l", "d", " ", "n", "o", "t", " ", "b", "y", "p", "a", "s", "s">>
      [] t = "tests:\npassing now" ->
            <<"t", "e", "s", "t", "s", ":", "\n", "p", "a", "s", "s", "i", "n", "g", " ", "n", "o", "w">>
      [] t = "checks\nfailures: none found" ->
            <<"c", "h", "e", "c", "k", "s", "\n", "f", "a", "i", "l", "u", "r", "e", "s", ":", " ", "n", "o", "n", "e", " ", "f", "o", "u", "n", "d">>
      [] t = "it may fail sometimes" ->
            <<"i", "t", " ", "m", "a", "y", " ", "f", "a", "i", "l", " ", "s", "o", "m", "e", "t", "i", "m", "e", "s">>
      [] t = "the build did not pass." ->
            <<"t", "h", "e", " ", "b", "u", "i", "l", "d", " ", "d", "i", "d", " ", "n", "o", "t", " ", "p", "a", "s", "s", ".">>
      [] t = "NEEDS_REVISION\nPASS" ->
            <<"N", "E", "E", "D", "S", "_", "R", "E", "V", "I", "S", "I", "O", "N", "\n", "P", "A", "S", "S">>
      [] t = "needs_revision please" ->
            <<"n", "e", "e", "d", "s", "_", "r", "e", "v", "i", "s", "i", "o", "n", " ", "p", "l", "e", "a", "s", "e">>
      [] t = "PASS\nxxxxxxxxxxxxxxxxxxxxxxxxxxxxxxxxxxxxxxxxxxxxxxxxxxxxxxxxxxxxxxxxxxxxxxxxxxxxxxxxxxxxxxxxxxxxxxxxxxxx" ->
            <<"P", "A", "S", "S", "\n">> \o Xs(100)
      [] t = "FAIL xxxxxxxxxxxxxxxxxxxxxxxxxxxxxxxxxxxxxxxxxxxxxxxxxxxxxxxxxxxxxxxxxxxxxxxxxxxxxxxxxxxxxxxxxxxxxxxxxxxx" ->
            <<"F", "A", "I", "L", " ">> \o Xs(100)
      [] t = "NEEDS_REVISION xxxxxxxxxxxxxxxxxxxxxxxxxxxxxxxxxxxxxxxxxxxxxxxxxxxxxxxxxxxxxxxxxxxxxxxxxxxxxxxxxxxxxxxxxxxxxxxxxxxx" ->
            <<"N", "E", "E", "D", "S", "_", "R", "E", "V", "I", "S", "I", "O", "N", " ">> \o Xs(100)
      [] t = "xxxxxxxxxxxxxxxxxxxxxxxxxxxxxxxxxxxxxxxxxxxxxxxxxxxxxxxxxxxxxxxxxxxxxxxxxxxxxxxxxxxxxxxxxxxxxxxxxxxx\nPASS" ->
            Xs(100) \o <<"\n", "P", "A", "S", "S">>
      [] t = "\nPASSxxxxxxxxxxxxxxxxxxxxxxxxxxxxxxxxxxxxxxxxxxxxxxxxxxxxxxxxxxxxxxxxxxxxxxxxxxxxxxxxxxxxxxxxxxxxxxxxx" ->
            <<"\n", "P", "A", "S", "S">> \o Xs(97)
      [] t = "\nPASSxxxxxxxxxxxxxxxxxxxxxxxxxxxxxxxxxxxxxxxxxxxxxxxxxxxxxxxxxxxxxxxxxxxxxxxxxxxxxxxxxxxxxxxxxxxxxxxx" ->
            <<"\n", "P", "A", "S", "S">> \o Xs(96)
      [] t = "VERDICT: PASSxxxxxxxxxxxxxxxxxxxxxxxxxxxxxxxxxxxxxxxxxxxxxxxxxxxxxxxxxxxxxxxxxxxxxxxxxxxxxxxxxxxxxxxxxxxxxxxxxxxx" ->
            <<"V", "E", "R", "D", "I", "C", "T", ":", " ", "P", "A", "S", "S">> \o Xs(100)

\* len(s) of Python
len(t) == Len(chars(t))

\* str.startswith
startswith(s, pat) ==
    /\ Len(s) >= Len(pat)
    /\ SubSeq(s, 1, Len(pat)) = pat

LowerCase == <<"a", "b", "c", "d", "e", "f", "g", "h", "i", "j", "k", "l", "m",
               "n", "o", "p", "q", "r", "s", "t", "u", "v", "w", "x", "y", "z">>
UpperCase == <<"A", "B", "C", "D", "E", "F", "G", "H", "I", "J", "K", "L", "M",
               "N", "O", "P", "Q", "R", "S", "T", "U", "V", "W", "X", "Y", "Z">>

\* str.upper(), per character and per character sequence
upper_char(c) ==
    IF \E i \in 1..26 : LowerCase[i] = c
    THEN UpperCase[CHOOSE i \in 1..26 : LowerCase[i] = c]
    ELSE c

upper(s) == [i \in 1..Len(s) |-> upper_char(s[i])]

\* the Python operator "pat in s" on character sequences
contains(s, pat) ==
    \E i \in 1..(Len(s) - Len(pat) + 1) : SubSeq(s, i, i + Len(pat) - 1) = pat

\* str.endswith
endswith(s, pat) ==
    /\ Len(s) >= Len(pat)
    /\ SubSeq(s, Len(s) - Len(pat) + 1, Len(s)) = pat

IsSpace(c) == c \in {" ", "\n", "\t", "\r"}

\* str.strip()
strip(s) ==
    IF \A i \in 1..Len(s) : IsSpace(s[i])
    THEN <<>>
    ELSE LET first == CHOOSE i \in 1..Len(s) :
                          /\ ~IsSpace(s[i])
                          /\ \A j \in 1..(i - 1) : IsSpace(s[j])
             last == CHOOSE i \in 1..Len(s) :
                          /\ ~IsSpace(s[i])
                          /\ \A j \in (i + 1)..Len(s) : IsSpace(s[j])
         IN SubSeq(s, first, last)

(***************************************************************************)
(* ConvergenceCriteria.should_stop                                         *)
(***************************************************************************)
should_stop_strict_cap(c, it, critic_verdict, test_result) ==
    IF it > c.max_iterations
    THEN <<TRUE, "max_iterations_reached">>
    ELSE IF c.require_critic_pass /\ critic_verdict = "PASS"
              /\ (~c.require_tests_pass \/ test_result)
         THEN <<TRUE, "success">>
         ELSE <<FALSE, "continue">>

should_stop_ignoring_tests(c, it, critic_verdict, test_result) ==
    IF it >= c.max_iterations
    THEN <<TRUE, "max_iterations_reached">>
    ELSE IF c.require_critic_pass /\ critic_verdict = "PASS"
         THEN <<TRUE, "success">>
         ELSE <<FALSE, "continue">>

should_stop_early_cap(c, it, critic_verdict, test_result) ==
    IF it >= c.max_iterations - 1
    THEN <<TRUE, "max_iterations_reached">>
    ELSE IF c.require_critic_pass /\ critic_verdict = "PASS"
              /\ (~c.require_tests_pass \/ test_result)
         THEN <<TRUE, "success">>
         ELSE <<FALSE, "continue">>

should_stop(c, it, critic_verdict, test_result) ==
    IF it >= c.max_iterations
    THEN <<TRUE, "max_iterations_reached">>
    ELSE IF c.require_critic_pass /\ critic_verdict = "PASS"
              /\ (~c.require_tests_pass \/ test_result)
         THEN <<TRUE, "success">>
         ELSE <<FALSE, "continue">>

(***************************************************************************)
(* Agent._default_parser and Agent.invoke                                  *)
(***************************************************************************)
VerdictColonSpacePass ==
    <<"V", "E", "R", "D", "I", "C", "T", ":", " ", "P", "A", "S", "S">>
VerdictColonPass ==
    <<"V", "E", "R", "D", "I", "C", "T", ":", "P", "A", "S", "S">>
VerdictColonSpaceFail ==
    <<"V", "E", "R", "D", "I", "C", "T", ":", " ", "F", "A", "I", "L">>
VerdictColonFail ==
    <<"V", "E", "R", "D", "I", "C", "T", ":", "F", "A", "I", "L">>
NeedsRevision ==
    <<"N", "E", "E", "D", "S", "_", "R", "E", "V", "I", "S", "I", "O", "N">>

\* the tail inspected for a bare PASS / FAIL token
TailChars == 100

parse_verdict_whole_text(content) ==
    LET content_upper == upper(chars(content))
        tail == content_upper
    IN IF contains(content_upper, VerdictColonSpacePass)
            \/ contains(content_upper, VerdictColonPass)
       THEN "PASS"
       ELSE IF contains(content_upper, VerdictColonSpaceFail)
                 \/ contains(content_upper, VerdictColonFail)
       THEN "FAIL"
       ELSE IF endswith(strip(tail), <<"P", "A", "S", "S">>)
                 \/ contains(tail, <<"\n", "P", "A", "S", "S">>)
       THEN "PASS"
       ELSE IF endswith(strip(tail), <<"F", "A", "I", "L">>)
                 \/ contains(tail, <<"\n", "F", "A", "I", "L">>)
       THEN "FAIL"
       ELSE IF contains(content_upper, NeedsRevision)
       THEN "NEEDS_REVISION"
       ELSE None

parse_verdict_bare_first(content) ==
    LET content_upper == upper(chars(content))
        tail == IF Len(content_upper) > TailChars
                THEN SubSeq(content_upper, Len(content_upper) - TailChars + 1,
                            Len(content_upper))
                ELSE content_upper
    IN IF endswith(strip(tail), <<"P", "A", "S", "S">>)
            \/ contains(tail, <<"\n", "P", "A", "S", "S">>)
       THEN "PASS"
       ELSE IF endswith(strip(tail), <<"F", "A", "I", "L">>)
                 \/ contains(tail, <<"\n", "F", "A", "I", "L">>)
       THEN "FAIL"
       ELSE IF contains(content_upper, VerdictColonSpacePass)
                 \/ contains(content_upper, VerdictColonPass)
       THEN "PASS"
       ELSE IF contains(content_upper, VerdictColonSpaceFail)
                 \/ contains(content_upper, VerdictColonFail)
       THEN "FAIL"
       ELSE IF contains(content_upper, NeedsRevision)
       THEN "NEEDS_REVISION"
       ELSE None

parse_verdict_fail_first(content) ==
    LET content_upper == upper(chars(content))
        tail == IF Len(content_upper) > TailChars
                THEN SubSeq(content_upper, Len(content_upper) - TailChars + 1,
                            Len(content_upper))
                ELSE content_upper
    IN IF contains(content_upper, VerdictColonSpaceFail)
            \/ contains(content_upper, VerdictColonFail)
       THEN "FAIL"
       ELSE IF contains(content_upper, VerdictColonSpacePass)
                 \/ contains(content_upper, VerdictColonPass)
       THEN "PASS"
       ELSE IF endswith(strip(tail), <<"P", "A", "S", "S">>)
                 \/ contains(tail, <<"\n", "P", "A", "S", "S">>)
       THEN "PASS"
       ELSE IF endswith(strip(tail), <<"F", "A", "I", "L">>)
                 \/ contains(tail, <<"\n", "F", "A", "I", "L">>)
       THEN "FAIL"
       ELSE IF contains(content_upper, NeedsRevision)
       THEN "NEEDS_REVISION"
       ELSE None

\* the verdict _default_parser extracts from the response text
parse_verdict(content) ==
    LET content_upper == upper(chars(content))
        tail == IF Len(content_upper) > TailChars
                THEN SubSeq(content_upper, Len(content_upper) - TailChars + 1,
                            Len(content_upper))
                ELSE content_upper
    IN IF contains(content_upper, VerdictColonSpacePass)
            \/ contains(content_upper, VerdictColonPass)
       THEN "PASS"
       ELSE IF contains(content_upper, VerdictColonSpaceFail)
                 \/ contains(content_upper, VerdictColonFail)
       THEN "FAIL"
       ELSE IF endswith(strip(tail), <<"P", "A", "S", "S">>)
                 \/ contains(tail, <<"\n", "P", "A", "S", "S">>)
       THEN "PASS"
       ELSE IF endswith(strip(tail), <<"F", "A", "I", "L">>)
                 \/ contains(tail, <<"\n", "F", "A", "I", "L">>)
       THEN "FAIL"
       ELSE IF contains(content_upper, NeedsRevision)
       THEN "NEEDS_REVISION"
       ELSE None

\* the AgentResponse built from a RunnerResult
default_parser(content, result) ==
    [content |-> content,
     success |-> result.success,
     verdict |-> parse_verdict(content)]

\* Agent.invoke: the prompt gets a "Context:" block only for a non-empty
\* context; the backend's result is parsed into an AgentResponse.
invoke(prompt, context_len, result) ==
    [prompt_has_context |-> context_len > 0,
     response |-> default_parser(result.content, result)]

(***************************************************************************)
(* MemoryBank                                                              *)
(***************************************************************************)
\* len(datetime.now().isoformat()), "YYYY-MM-DDTHH:MM:SS.ffffff" (isoformat
\* drops the fraction only at a microsecond of exactly 0, which the model
\* leaves out)
TimestampLen == 26

\* character counts of the fixed parts of the documents
ProductTemplateLen == 163
ActiveInitTemplateLen == 273
ActiveHeaderLen == 35
PatternsTemplateLen == 250
ProgressTemplateLen == 190
ProductHeaderLen == 24
ActiveSectionHeaderLen == 23
PatternsHeaderLen == 24
JoinLen == 2
ReadContextMaxChars == 50000
ExcerptChars == 500

\* s[:n] of a text, kept as the text and the number of characters taken
slice(t, n) == [text |-> t, upto |-> Min(n, len(t))]

NoExcerpt == slice("", 0)

\* len(str(n)) for the non-negative integers that occur
digits(n) ==
    IF n < 10 THEN 1
    ELSE IF n < 100 THEN 2
    ELSE IF n < 1000 THEN 3
    ELSE IF n < 10000 THEN 4
    ELSE IF n < 100000 THEN 5
    ELSE 6

\* len(f"[WARNING: Context exceeds {max_chars} chars. Consider
\* compacting.]\n\n")
WarningBannerLen(max_chars) == 57 + digits(max_chars)

verdict_len(v) ==
    CASE v = "PASS" -> 4
      [] v = "FAIL" -> 4
      [] v = "NEEDS_REVISION" -> 14
      [] v = "PENDING" -> 7

next_steps_len(n) ==
    CASE n = "Fix issues and iterate" -> 22
      [] n = "Task complete!" -> 14

\* The body of the active-context document that initialize() writes
InitialContent ==
    [kind |-> "initialize", status |-> "INITIALIZED",
     phase |-> "PLANNING", iteration |-> 0, verdict |-> None,
     plan |-> NoExcerpt, impl |-> NoExcerpt, review |-> NoExcerpt,
     next_steps |-> "1. Generate implementation plan", text |-> None]

\* A content that is a plain text, as a caller may hand to
\* update_active_context
TextContent(t) ==
    [kind |-> "text", status |-> None, phase |-> None, iteration |-> 0,
     verdict |-> None, plan |-> NoExcerpt, impl |-> NoExcerpt,
     review |-> NoExcerpt, next_steps |-> None, text |-> t]

\* The body compact() would write; a runner that is not callable never
\* produces a summary, so the workflow has none to write
NoSummary ==
    [kind |-> "summary", status |-> None, phase |-> None, iteration |-> 0,
     verdict |-> None, plan |-> NoExcerpt, impl |-> NoExcerpt,
     review |-> NoExcerpt, next_steps |-> None, text |-> None]

\* An active-context file: the "_Last updated: <timestamp>_" header, of
\* which the model keeps the time written and the timestamp's length, and
\* the body under it
ActiveDocument(content, now) ==
    [updated |-> now, ts |-> TimestampLen, kind |-> content.kind,
     status |-> content.status,
     phase |-> content.phase, iteration |-> content.iteration,
     verdict |-> content.verdict, plan |-> content.plan,
     impl |-> content.impl, review |-> content.review,
     next_steps |-> content.next_steps, text |-> content.text]

\* The content run_moa_workflow hands to update_active_context
ProgressContent(it, plan, impl, review) ==
    [kind |-> "progress", status |-> "ITERATION",
     phase |-> "REVIEWING (just completed)", iteration |-> it,
     verdict |-> IF review.verdict = None THEN "PENDING" ELSE review.verdict,
     plan |-> slice(plan.content, ExcerptChars),
     impl |-> slice(impl.content, ExcerptChars),
     review |-> slice(review.content, ExcerptChars),
     next_steps |-> IF review.verdict # "PASS"
                    THEN "Fix issues and iterate" ELSE "Task complete!",
     text |-> None]

content_len(c) ==
    ProgressTemplateLen + digits(c.iteration) + verdict_len(c.verdict)
        + c.plan.upto + c.impl.upto + c.review.upto
        + next_steps_len(c.next_steps)

RECURSIVE SumLens(_)
SumLens(ls) == IF ls = <<>> THEN 0 ELSE Head(ls) + SumLens(Tail(ls))

\* len("\n".join(lines))
joined_len(lines) ==
    SumLens([i \in 1..Len(lines) |-> Len(lines[i])])
        + (IF lines = <<>> THEN 0 ELSE Len(lines) - 1)

active_len(a) ==
    CASE a.kind = "initialize" -> ActiveInitTemplateLen + a.ts
      [] a.kind = "text" -> ActiveHeaderLen + a.ts + len(a.text)
      [] a.kind = "lines" -> joined_len(a.lines)
      [] OTHER -> ActiveHeaderLen + a.ts + content_len(a)

\* s.split("\n") of a character sequence
RECURSIVE split_lines(_)
split_lines(s) ==
    IF \A i \in 1..Len(s) : s[i] # "\n"
    THEN <<s>>
    ELSE LET at == CHOOSE i \in 1..Len(s) :
                       /\ s[i] = "\n"
                       /\ \A j \in 1..(i - 1) : s[j] # "\n"
         IN <<SubSeq(s, 1, at - 1)>> \o split_lines(SubSeq(s, at + 1, Len(s)))

\* the line f"## {section}"
Heading(section) == chars("## ") \o chars(section)

\* the line "_Last updated: <timestamp>_"; a timestamp is made of digits
\* and the separators "-", "T", ":" and ".", for which a digit stands
StampLine(ts) == chars("_Last updated: ") \o [i \in 1..ts |-> "0"] \o <<"_">>

\* the lines of an active-context file, text.split("\n"), each a sequence
\* of characters: those initialize() writes, those of a header followed by
\* a plain text, and those an append_to_active_context has written
doc_lines(a) ==
    CASE a.kind = "lines" -> a.lines
      [] a.kind = "initialize" ->
            <<chars("# Active Context"), StampLine(a.ts), <<>>,
              Heading("Current State"), chars("- Status: INITIALIZED"),
              chars("- Phase: PLANNING"), chars("- Iteration: 0"), <<>>,
              Heading("What We're Working On"),
              chars("(To be updated by agents)"), <<>>,
              Heading("Recent Progress"), chars("(Empty - just started)"),
              <<>>,
              Heading("Blockers"), chars("(None yet)"), <<>>,
              Heading("Next Steps"),
              chars("1. Generate implementation plan"), <<>>>>
      [] a.kind = "text" ->
            <<chars("# Active Context"), StampLine(a.ts), <<>>>>
                \o split_lines(chars(a.text))

\* An active-context file kept line by line; its header line, if it has
\* one, still shows the time of the last overwrite
LinesDocument(lines, updated, ts) ==
    [updated |-> updated, ts |-> ts, kind |-> "lines", status |-> None,
     phase |-> None, iteration |-> 0, verdict |-> None, plan |-> NoExcerpt,
     impl |-> NoExcerpt, review |-> NoExcerpt, next_steps |-> None,
     text |-> None, lines |-> lines]

\* the for loop of append_to_active_context over the lines still to come
RECURSIVE insert_into(_, _, _, _)
insert_into(lines, heading, content, in_section) ==
    IF lines = <<>>
    THEN IF in_section THEN <<content>> ELSE <<>>
    ELSE LET line == Head(lines)
         IN IF startswith(line, heading)
            THEN <<line>> \o insert_into(Tail(lines), heading, content, TRUE)
            ELSE IF in_section /\ startswith(line, chars("## "))
            THEN <<content, <<>>, line>>
                    \o insert_into(Tail(lines), heading, content, FALSE)
            ELSE <<line>>
                    \o insert_into(Tail(lines), heading, content, in_section)

\* the lines append_to_active_context computes from the text it has read
appended_lines(lines, section, content) ==
    IF \E i \in 1..Len(lines) : contains(lines[i], Heading(section))
    THEN insert_into(lines, Heading(section), chars(content), FALSE)
    ELSE lines \o <<<<>>, Heading(section), chars(content)>>

\* the directory of the bank exists: a file is in it (clear() removes the
\* directory with the last file)
dir_exists(bank) ==
    bank.product # Nothing \/ bank.active # Nothing \/ bank.patterns # Nothing

\* MemoryBank.read_active_context
read_active_context(bank) == bank.active

\* what read_active_context returned, as lines: "" when there was no file
current_lines(current) ==
    IF current # Nothing THEN doc_lines(get(current)) ELSE <<<<>>>>

\* lines 185-213 of append_to_active_context: the new text is computed
\* from current, the text read at line 182, and written
active_written(bank, current, section, content) ==
    [bank EXCEPT !.active =
        Some(LinesDocument(
            appended_lines(current_lines(current), section, content),
            IF current # Nothing THEN get(current).updated ELSE 0 - 1,
            IF current # Nothing THEN get(current).ts ELSE 0))]

\* MemoryBank.append_to_active_context(section, content) without another
\* writer: the file is read, the new text computed and written; write_text
\* raises FileNotFoundError when the directory does not exist
append_to_active_context(bank, section, content) ==
    IF ~dir_exists(bank)
    THEN [raised |-> TRUE, bank |-> bank]
    ELSE [raised |-> FALSE,
          bank |-> active_written(bank, read_active_context(bank),
                                  section, content)]

\* A system-patterns file: whether it starts with the template that
\* initialize() writes, and the "\n\n## name\ncontent" entries after it
InitialPatterns == [template |-> TRUE, entries |-> <<>>]

RECURSIVE entries_len(_)
entries_len(es) ==
    IF es = <<>> THEN 0
    ELSE 2 + 3 + len(Head(es).name) + 1 + len(Head(es).content)
           + entries_len(Tail(es))

patterns_len(doc) ==
    (IF doc.template THEN PatternsTemplateLen ELSE 0) + entries_len(doc.entries)

initialize_keeping_active(bank, g, project_info, now) ==
    [product |-> Some([goal |-> g, project_info |-> project_info]),
     active |-> IF bank.active = Nothing
                THEN Some(ActiveDocument(InitialContent, now))
                ELSE bank.active,
     patterns |-> Some(InitialPatterns)]

\* MemoryBank.initialize(goal, project_info) at time now: the three files
\* are written
initialize(bank, g, project_info, now) ==
    [product |-> Some([goal |-> g, project_info |-> project_info]),
     active |-> Some(ActiveDocument(InitialContent, now)),
     patterns |-> Some(InitialPatterns)]

update_active_context_resetting(bank, content, now) ==
    [product |-> Nothing,
     active |-> Some(ActiveDocument(content, now)),
     patterns |-> Nothing]

\* MemoryBank.update_active_context(content) at time now: header + content
\* replace the file
update_active_context(bank, content, now) ==
    [bank EXCEPT !.active = Some(ActiveDocument(content, now))]

\* lines 225-227 of append_pattern: the text of the file, "" when there
\* is no file
read_patterns(bank) ==
    IF bank.patterns # Nothing THEN get(bank.patterns)
    ELSE [template |-> FALSE, entries |-> <<>>]

\* lines 229-230 of append_pattern: the entry is put after current, the
\* text read before, and the result written
patterns_written(bank, current, pattern_name, pattern_content) ==
    [bank EXCEPT !.patterns =
        Some([current EXCEPT !.entries =
                 Append(@, [name |-> pattern_name,
                            content |-> pattern_content])])]

\* MemoryBank.append_pattern(pattern_name, pattern_content) without another
\* writer
append_pattern(bank, pattern_name, pattern_content) ==
    patterns_written(bank, read_patterns(bank), pattern_name, pattern_content)

\* MemoryBank.clear: the files are removed
clear(bank) == [product |-> Nothing, active |-> Nothing, patterns |-> Nothing]

\* the parts read_context joins: each existing file under its header
Sections(bank) ==
    (IF bank.product # Nothing
     THEN <<[header |-> "=== PRODUCT CONTEXT ===", body |-> get(bank.product)]>>
     ELSE <<>>)
    \o (IF bank.active # Nothing
        THEN <<[header |-> "=== ACTIVE CONTEXT ===", body |-> get(bank.active)]>>
        ELSE <<>>)
    \o (IF bank.patterns # Nothing
        THEN <<[header |-> "=== SYSTEM PATTERNS ===",
                body |-> get(bank.patterns)]>>
        ELSE <<>>)

read_context_truncating(bank, max_chars) ==
    LET parts ==
            (IF bank.product # Nothing
             THEN <<ProductHeaderLen + ProductTemplateLen
                      + len(get(bank.product).goal)
                      + len(get(bank.product).project_info)>>
             ELSE <<>>)
            \o (IF bank.active # Nothing
                THEN <<ActiveSectionHeaderLen + active_len(get(bank.active))>>
                ELSE <<>>)
            \o (IF bank.patterns # Nothing
                THEN <<PatternsHeaderLen + patterns_len(get(bank.patterns))>>
                ELSE <<>>)
        content_length ==
            SumLens(parts)
                + (IF Len(parts) > 1 THEN JoinLen * (Len(parts) - 1) ELSE 0)
        warning == content_length > max_chars
    IN [product |-> bank.product, active |-> bank.active,
        patterns |-> bank.patterns, warning |-> warning,
        sections |-> Sections(bank),
        length |-> IF warning THEN max_chars ELSE content_length]

\* MemoryBank.read_context(max_chars): the existing files, each under its
\* header, joined by blank lines; a warning banner is prepended when the
\* combined text is longer than max_chars
read_context(bank, max_chars) ==
    LET parts ==
            (IF bank.product # Nothing
             THEN <<ProductHeaderLen + ProductTemplateLen
                      + len(get(bank.product).goal)
                      + len(get(bank.product).project_info)>>
             ELSE <<>>)
            \o (IF bank.active # Nothing
                THEN <<ActiveSectionHeaderLen + active_len(get(bank.active))>>
                ELSE <<>>)
            \o (IF bank.patterns # Nothing
                THEN <<PatternsHeaderLen + patterns_len(get(bank.patterns))>>
                ELSE <<>>)
        content_length ==
            SumLens(parts)
                + (IF Len(parts) > 1 THEN JoinLen * (Len(parts) - 1) ELSE 0)
        warning == content_length > max_chars
    IN [product |-> bank.product, active |-> bank.active,
        patterns |-> bank.patterns, warning |-> warning,
        sections |-> Sections(bank),
        length |-> IF warning THEN WarningBannerLen(max_chars) + content_length
                   ELSE content_length]

\* What is handed to compact() as summarizer_callable is None, a function,
\* or (by run_moa_workflow) a runner; a CLIRunner object has run() and
\* is_available() but no __call__
callable(summarizer) == summarizer = "function"

\* MemoryBank.compact(summarizer_callable): without a summarizer nothing is
\* written; otherwise summarizer_callable(prompt) is called, which raises
\* TypeError for an object that is not callable, and its result replaces
\* the active context.
compact(bank, summarizer, summary, now) ==
    IF summarizer = None
    THEN [raised |-> FALSE, bank |-> bank]
    ELSE IF ~callable(summarizer)
    THEN [raised |-> TRUE, bank |-> bank]
    ELSE [raised |-> FALSE,
          bank |-> update_active_context(bank, summary, now)]

(***************************************************************************)
(* Input domains                                                           *)
(***************************************************************************)
\* context_char_limit: below the initial context, between the initial
\* context and the largest context one iteration produces, and the default
ContextLimits == {100, 800, 50000}

CriteriaSet ==
    [max_iterations : 0..MaxIterations,
     require_critic_pass : BOOLEAN,
     require_tests_pass : BOOLEAN,
     context_char_limit : ContextLimits]

\* verdict strings handed to should_stop ("" stands for a null verdict)
StopVerdicts == {"PASS", "FAIL", "NEEDS_REVISION", "", "pass"}

StopArgs ==
    [iteration : 0..(MaxIterations + 1),
     critic_verdict : StopVerdicts,
     test_result : BOOLEAN]

\* the processes that use one Memory Bank directory at the same time
WriterIds == {1, 2}

\* a writer that is not inside a call
IdleWriter ==
    [at |-> "idle", op |-> None, name |-> None, content |-> None,
     current |-> <<>>]

\* no writer is inside a call
NoWriters == writers = [w \in WriterIds |-> IdleWriter]

\* No Agent.invoke call of SpecAgent is under way
AgentIdle ==
    /\ invoke_args = Nothing
    /\ invoke_result = Nothing

\* Orchestrator.__init__: no conversation yet, max_turns at its default
LogIdle ==
    /\ clock = 0
    /\ max_turns = 20
    /\ heap = <<>>
    /\ conversations = <<>>
    /\ frame = Nothing
    /\ returned = Nothing

\* State of an Orchestrator on which run_moa_workflow has not been called,
\* its MemoryBank on a directory that holds the files of bank
MoaIdleOn(bank) ==
    /\ goal = None
    /\ critic_given = FALSE
    /\ pc = "idle"
    /\ iteration = 0
    /\ conversation = Nothing
    /\ current_status = "planning"
    /\ memory_bank = bank
    /\ context = Nothing
    /\ plan_response = Nothing
    /\ impl_response = Nothing
    /\ review_response = Nothing
    /\ fix_response = Nothing
    /\ stop = Nothing
    /\ calls = <<>>
    /\ compact_calls = 0
    /\ failures = 0

\* a directory without files
NoFiles == [product |-> Nothing, active |-> Nothing, patterns |-> Nothing]

MoaIdle == MoaIdleOn(NoFiles)

(***************************************************************************)
(* Orchestrator.run_moa_workflow                                           *)
(***************************************************************************)
Goals == {"X"}

\* What a backend can return for the call of a phase: a successful result
\* with some text, or a failed result, whose content every runner leaves "".
SuccessTexts(phase) ==
    CASE phase = "PLANNING" -> {"plan"}
      [] phase = "CODING" -> {"code"}
      [] phase = "REVIEWING" -> {"VERDICT: PASS", "VERDICT: FAIL",
                                 "NEEDS_REVISION",
                                 "the tests passed successfully"}
                                    \cup BothLabelTexts
      [] phase = "FIX" -> {"fixed"}

BackendResults(phase) ==
    [content : SuccessTexts(phase), success : {TRUE}]
        \cup (IF failures < MaxFailures
              THEN {[content |-> "", success |-> FALSE]}
              ELSE {})

\* critic = critic or architect
CriticName == IF critic_given THEN "critic" ELSE "architect"

\* time.time() is read in ticks, of which a second has this many
TicksPerSecond == 2

\* f"conv_{int(time.time())}"
conv_id(now) == [prefix |-> "conv_", seconds |-> now \div TicksPerSecond]

\* d[k] = v of a Python dict
put(d, k, v) == [x \in (DOMAIN d) \cup {k} |-> IF x = k THEN v ELSE d[x]]

\* A reference to a Conversation object is its index in heap; the object
\* a run_moa_workflow call holds in its local variable has reference 0
MoaRef == 0

\* Orchestrator.create_conversation: the Conversation object it constructs
create_conversation(g, now) ==
    [id |-> conv_id(now), goal |-> g, turns |-> <<>>, status |-> "active",
     metadata |-> [iterations |-> Nothing, final_status |-> Nothing]]

add_turn_replacing(conv, turn) == [conv EXCEPT !.turns = <<turn>>]

\* Conversation.add_turn
add_turn(conv, turn) == [conv EXCEPT !.turns = Append(conv.turns, turn)]

ConversationTurn(agent_name, role, prompt, response) ==
    [agent_name |-> agent_name, role |-> role, prompt |-> prompt,
     response |-> response.content, success |-> response.success]

CallRecord(phase, agent, ctx_text, ctx_len, feedback, inv) ==
    [phase |-> phase, agent |-> agent, iteration |-> iteration,
     context |-> ctx_text, context_len |-> ctx_len, feedback |-> feedback,
     prompt_has_context |-> inv.prompt_has_context,
     response |-> inv.response]

Init ==
    /\ criteria \in CriteriaSet
    /\ NoWriters
    /\ stop_args = Nothing
    /\ stop_result = Nothing
    /\ AgentIdle
    /\ LogIdle
    /\ MoaIdle

\* lines 386-398: bind the arguments, create the conversation, initialise
\* the memory bank, iteration = 0
StartMoA ==
    /\ pc = "idle"
    /\ \E g \in Goals, cg \in BOOLEAN :
          /\ goal' = g
          /\ critic_given' = cg
          /\ conversation' = Some(create_conversation(g, clock))
          /\ conversations' = put(conversations, conv_id(clock), MoaRef)
          /\ memory_bank' = initialize(memory_bank, g, "", clock)
    /\ iteration' = 0
    /\ pc' = "loop"
    /\ UNCHANGED <<unit_vars, clock, max_turns, heap, frame, returned,
                   criteria, current_status, context, plan_response,
                   impl_response, review_response, fix_response, stop, calls,
                   compact_calls, failures>>

\* lines 400-409: next iteration, read the context, compact it when it is
\* longer than context_char_limit and read it again
LoopTop ==
    /\ pc = "loop"
    /\ iteration' = iteration + 1
    /\ LET ctx == read_context(memory_bank, ReadContextMaxChars)
       IN IF ctx.length > criteria.context_char_limit
          THEN LET done == compact(memory_bank, "runner", NoSummary, clock)
               IN /\ compact_calls' = compact_calls + 1
                  /\ memory_bank' = done.bank
                  /\ IF done.raised
                     THEN /\ pc' = "raised"
                          /\ UNCHANGED context
                     ELSE /\ pc' = "planning"
                          /\ context' = Some(read_context(done.bank,
                                                 ReadContextMaxChars))
          ELSE /\ context' = Some(ctx)
               /\ pc' = "planning"
               /\ UNCHANGED <<memory_bank, compact_calls>>
    /\ UNCHANGED <<unit_vars, log_vars, criteria, goal, critic_given, conversation,
                   current_status, plan_response, impl_response,
                   review_response, fix_response, stop, calls, failures>>

\* lines 411-420: PLANNING, the architect is invoked with the context
Planning ==
    /\ pc = "planning"
    /\ current_status' = "planning"
    /\ \E result \in BackendResults("PLANNING") :
          LET inv == invoke("Design solution for: goal",
                            get(context).length, result)
          IN /\ plan_response' = Some(inv.response)
             /\ calls' = Append(calls,
                    CallRecord("PLANNING", "architect", "memory_bank",
                               get(context).length, None, inv))
             /\ failures' = IF result.success THEN failures ELSE failures + 1
    /\ pc' = "plan_turn"
    /\ UNCHANGED <<unit_vars, log_vars, criteria, goal, critic_given, iteration,
                   conversation, memory_bank, context, impl_response,
                   review_response, fix_response, stop, compact_calls>>

\* lines 425-434: the plan is recorded as a turn
RecordPlan ==
    /\ pc = "plan_turn"
    /\ conversation' = Some(add_turn(get(conversation),
            ConversationTurn("architect", "architect",
                             "Design solution for: goal",
                             get(plan_response))))
    /\ pc' = "coding"
    /\ UNCHANGED <<unit_vars, log_vars, criteria, goal, critic_given, iteration,
                   current_status, memory_bank, context, plan_response,
                   impl_response, review_response, fix_response, stop, calls,
                   compact_calls, failures>>

\* lines 436-444: CODING, the executor is invoked with the plan as context
Coding ==
    /\ pc = "coding"
    /\ current_status' = "coding"
    /\ \E result \in BackendResults("CODING") :
          LET ctx == get(plan_response).content
              inv == invoke("Implement this design", len(ctx), result)
          IN /\ impl_response' = Some(inv.response)
             /\ calls' = Append(calls,
                    CallRecord("CODING", "executor", ctx, len(ctx), None, inv))
             /\ failures' = IF result.success THEN failures ELSE failures + 1
    /\ pc' = "impl_turn"
    /\ UNCHANGED <<unit_vars, log_vars, criteria, goal, critic_given, iteration,
                   conversation, memory_bank, context, plan_response,
                   review_response, fix_response, stop, compact_calls>>

\* lines 450-459: the implementation is recorded as a turn
RecordImpl ==
    /\ pc = "impl_turn"
    /\ conversation' = Some(add_turn(get(conversation),
            ConversationTurn("executor", "implementer",
                             "Implement this design", get(impl_response))))
    /\ pc' = "reviewing"
    /\ UNCHANGED <<unit_vars, log_vars, criteria, goal, critic_given, iteration,
                   current_status, memory_bank, context, plan_response,
                   impl_response, review_response, fix_response, stop, calls,
                   compact_calls, failures>>

\* lines 461-475: REVIEWING, the critic is invoked with the implementation
Reviewing ==
    /\ pc = "reviewing"
    /\ current_status' = "reviewing"
    /\ \E result \in BackendResults("REVIEWING") :
          LET ctx == get(impl_response).content
              inv == invoke("Review this implementation briefly",
                            len(ctx), result)
          IN /\ review_response' = Some(inv.response)
             /\ calls' = Append(calls,
                    CallRecord("REVIEWING", CriticName, ctx, len(ctx), None,
                               inv))
             /\ failures' = IF result.success THEN failures ELSE failures + 1
    /\ pc' = "review_turn"
    /\ UNCHANGED <<unit_vars, log_vars, criteria, goal, critic_given, iteration,
                   conversation, memory_bank, context, plan_response,
                   impl_response, fix_response, stop, compact_calls>>

\* lines 482-491: the review is recorded as a turn
RecordReview ==
    /\ pc = "review_turn"
    /\ conversation' = Some(add_turn(get(conversation),
            ConversationTurn(CriticName, "reviewer", "Review implementation",
                             get(review_response))))
    /\ pc' = "update_memory"
    /\ UNCHANGED <<unit_vars, log_vars, criteria, goal, critic_given, iteration,
                   current_status, memory_bank, context, plan_response,
                   impl_response, review_response, fix_response, stop, calls,
                   compact_calls, failures>>

UpdateMemoryBank_not_writing ==
    /\ pc = "update_memory"
    /\ pc' = "check"
    /\ UNCHANGED <<unit_vars, log_vars, criteria, goal, critic_given, iteration,
                   conversation, current_status, memory_bank, context,
                   plan_response, impl_response, review_response,
                   fix_response, stop, calls, compact_calls, failures>>

\* lines 493-510: the active context is overwritten with the progress
UpdateMemoryBank ==
    /\ pc = "update_memory"
    /\ memory_bank' = update_active_context(memory_bank,
          ProgressContent(iteration, get(plan_response), get(impl_response),
                          get(review_response)),
          clock)
    /\ pc' = "check"
    /\ UNCHANGED <<unit_vars, log_vars, criteria, goal, critic_given, iteration,
                   conversation, current_status, context, plan_response,
                   impl_response, review_response, fix_response, stop, calls,
                   compact_calls, failures>>

\* review_response.verdict or ""
verdict_or_empty(v) == IF v = None THEN "" ELSE v

CheckConvergence_status_from_verdict ==
    /\ pc = "check"
    /\ LET res == should_stop(criteria, iteration,
                      verdict_or_empty(get(review_response).verdict), TRUE)
       IN /\ stop' = res
          /\ IF res[1]
             THEN /\ IF get(review_response).verdict = "PASS"
                     THEN /\ current_status' = "completed"
                          /\ conversation' = Some([get(conversation)
                                 EXCEPT !.status = "completed"])
                     ELSE /\ current_status' = "failed"
                          /\ conversation' = Some([get(conversation)
                                 EXCEPT !.status = "failed"])
                  /\ pc' = "finish"
             ELSE /\ pc' = "fix"
                  /\ UNCHANGED <<current_status, conversation>>
    /\ UNCHANGED <<unit_vars, log_vars, criteria, goal, critic_given, iteration,
                   memory_bank, context, plan_response, impl_response,
                   review_response, fix_response, calls, compact_calls,
                   failures>>

\* lines 512-530: the convergence check and what it sets when stopping
CheckConvergence ==
    /\ pc = "check"
    /\ LET res == should_stop(criteria, iteration,
                      verdict_or_empty(get(review_response).verdict), TRUE)
       IN /\ stop' = res
          /\ IF res[1]
             THEN /\ IF res[2] = "success"
                     THEN /\ current_status' = "completed"
                          /\ conversation' = Some([get(conversation)
                                 EXCEPT !.status = "completed"])
                     ELSE /\ current_status' = "failed"
                          /\ conversation' = Some([get(conversation)
                                 EXCEPT !.status = "failed"])
                  /\ pc' = "finish"
             ELSE /\ pc' = "fix"
                  /\ UNCHANGED <<current_status, conversation>>
    /\ UNCHANGED <<unit_vars, log_vars, criteria, goal, critic_given, iteration,
                   memory_bank, context, plan_response, impl_response,
                   review_response, fix_response, calls, compact_calls,
                   failures>>

\* lines 532-539: FIX, the executor is invoked with the review as feedback
\* and the implementation as context
Fix ==
    /\ pc = "fix"
    /\ \E result \in BackendResults("FIX") :
          LET ctx == get(impl_response).content
              inv == invoke("Fix based on this feedback: review",
                            len(ctx), result)
          IN /\ fix_response' = Some(inv.response)
             /\ calls' = Append(calls,
                    CallRecord("FIX", "executor", ctx, len(ctx),
                               get(review_response).content, inv))
             /\ failures' = IF result.success THEN failures ELSE failures + 1
    /\ pc' = "fix_turn"
    /\ UNCHANGED <<unit_vars, log_vars, criteria, goal, critic_given, iteration,
                   conversation, current_status, memory_bank, context,
                   plan_response, impl_response, review_response, stop,
                   compact_calls>>

RecordFix_without_turn ==
    /\ pc = "fix_turn"
    /\ pc' = "loop"
    /\ UNCHANGED <<unit_vars, log_vars, criteria, goal, critic_given, iteration,
                   conversation, current_status, memory_bank, context,
                   plan_response, impl_response, review_response,
                   fix_response, stop, calls, compact_calls, failures>>

\* lines 545-554: the fix is recorded as a turn, back to the top of the loop
RecordFix ==
    /\ pc = "fix_turn"
    /\ conversation' = Some(add_turn(get(conversation),
            ConversationTurn("executor", "implementer",
                             "Fix based on feedback", get(fix_response))))
    /\ pc' = "loop"
    /\ UNCHANGED <<unit_vars, log_vars, criteria, goal, critic_given, iteration,
                   current_status, memory_bank, context, plan_response,
                   impl_response, review_response, fix_response, stop, calls,
                   compact_calls, failures>>

Finish_counting_fixes ==
    /\ pc = "finish"
    /\ conversation' = Some([get(conversation) EXCEPT
            !.metadata = [iterations |-> Some(iteration - 1),
                          final_status |-> Some(current_status)]])
    /\ pc' = "done"
    /\ UNCHANGED <<unit_vars, log_vars, criteria, goal, critic_given, iteration,
                   current_status, memory_bank, context, plan_response,
                   impl_response, review_response, fix_response, stop, calls,
                   compact_calls, failures>>

\* lines 556-560: the final summary, and the return
Finish ==
    /\ pc = "finish"
    /\ conversation' = Some([get(conversation) EXCEPT
            !.metadata = [iterations |-> Some(iteration),
                          final_status |-> Some(current_status)]])
    /\ pc' = "done"
    /\ UNCHANGED <<unit_vars, log_vars, criteria, goal, critic_given, iteration,
                   current_status, memory_bank, context, plan_response,
                   impl_response, review_response, fix_response, stop, calls,
                   compact_calls, failures>>

Next ==
    \/ StartMoA
    \/ LoopTop
    \/ Planning
    \/ RecordPlan
    \/ Coding
    \/ RecordImpl
    \/ Reviewing
    \/ RecordReview
    \/ UpdateMemoryBank
    \/ CheckConvergence
    \/ Fix
    \/ RecordFix
    \/ Finish

Spec == Init /\ [][Next]_vars

\* the run is over: it returned, or an exception left run_moa_workflow
Terminated == pc \in {"done", "raised"}

TypeOK ==
    /\ pc \in {"idle", "loop", "planning", "plan_turn", "coding", "impl_turn",
               "reviewing", "review_turn", "update_memory", "check", "fix",
               "fix_turn", "finish", "done", "raised"}
    /\ iteration \in 0..(MaxIterations + 1)
    /\ failures \in 0..MaxFailures

(***************************************************************************)
(* Properties of run_moa_workflow                                          *)
(***************************************************************************)
Turns == IF conversation = Nothing THEN <<>> ELSE get(conversation).turns
Status == IF conversation = Nothing THEN None ELSE get(conversation).status

PhaseCycle == <<"PLANNING", "CODING", "REVIEWING", "FIX">>
PhaseRole == <<"architect", "implementer", "reviewer", "implementer">>
PhaseAgent == <<"architect", "executor", CriticName, "executor">>

\* positions at which an invocation has returned and its turn is not yet
\* recorded
RecordingPcs == {"plan_turn", "impl_turn", "review_turn", "fix_turn"}

CallsOf(phase) == SelectSeq(calls, LAMBDA c : c.phase = phase)

\* C4: the agents are invoked in the order PLANNING, CODING, REVIEWING,
\* FIX, PLANNING, ...; FIX is invoked only after a convergence check that
\* returned continue; the iteration counter is 1 in the first pass and one
\* more in each following pass; and each invocation's turn is appended, in
\* invocation order, before the next invocation.
C4_PhaseOrder ==
    /\ \A i \in 1..Len(calls) :
          /\ calls[i].phase = PhaseCycle[((i - 1) % 4) + 1]
          /\ calls[i].agent = PhaseAgent[((i - 1) % 4) + 1]
          /\ calls[i].iteration = ((i - 1) \div 4) + 1
    /\ (pc \in {"fix", "fix_turn"}) => stop = <<FALSE, "continue">>
    /\ (calls # <<>> /\ calls[Len(calls)].phase = "FIX")
          => stop = <<FALSE, "continue">>
    /\ (pc \notin {"idle", "loop", "raised"})
          => iteration = IF pc = "planning"
                         THEN (Len(calls) \div 4) + 1
                         ELSE ((Len(calls) - 1) \div 4) + 1
    /\ (pc = "loop") => iteration = Len(calls) \div 4
    /\ Len(Turns) = IF pc \in RecordingPcs THEN Len(calls) - 1 ELSE Len(calls)
    /\ \A i \in 1..Len(Turns) :
          /\ Turns[i].role = PhaseRole[((i - 1) % 4) + 1]
          /\ Turns[i].agent_name = calls[i].agent
          /\ Turns[i].response = calls[i].response.content
          /\ Turns[i].success = calls[i].response.success

C4_Witness ==
    /\ pc = "reviewing"
    /\ iteration = 2
    /\ Len(calls) = 6
    /\ Len(Turns) = 6
    /\ calls[4].phase = "FIX"

\* C5: when run_moa_workflow has returned, the conversation's status is
\* "completed" or "failed"; it is "completed" exactly when the last
\* convergence check stopped with reason "success"; and the orchestrator's
\* own status is COMPLETED or FAILED accordingly.
C5_TerminalStatus ==
    (pc = "done")
        => /\ stop # Nothing
           /\ stop[1]
           /\ Status \in {"completed", "failed"}
           /\ (Status = "completed") <=> (stop[2] = "success")
           /\ current_status = Status
           /\ get(conversation).metadata.final_status = Some(Status)

C5_Witness ==
    /\ pc = "done"
    /\ Status = "failed"
    /\ stop = <<TRUE, "max_iterations_reached">>
    /\ get(review_response).verdict = "PASS"
    /\ criteria.require_critic_pass

\* C6 as stated: a response with success = false stops the workflow at that
\* phase with status "failed" and reason "backend_error": no later phase is
\* invoked, the failed content is neither passed on as context nor parsed
\* for a verdict.
C6_FailedPhaseStops ==
    \A i \in 1..Len(calls) :
        ~calls[i].response.success
            => /\ i = Len(calls)
               /\ pc \notin {"update_memory", "check", "fix"}
               /\ Terminated
                    => /\ pc = "done"
                       /\ Status = "failed"
                       /\ stop = <<TRUE, "backend_error">>

\* the first review that parses to PASS is the one of iteration k
FirstPass(k) ==
    /\ k \in 1..Len(CallsOf("REVIEWING"))
    /\ CallsOf("REVIEWING")[k].response.verdict = "PASS"
    /\ \A j \in 1..(k - 1) : CallsOf("REVIEWING")[j].response.verdict # "PASS"

\* C7: with require_critic_pass, when the reviews of iterations 1..k-1 parse
\* to something other than PASS and the review of iteration k parses to
\* PASS, with k < max_iterations, the workflow performs exactly k
\* PLANNING/CODING/REVIEWING cycles and no FIX after the k-th, and returns
\* with status "completed" and metadata.iterations = k.
C7_FirstPassCompletes ==
    \A k \in 1..Len(CallsOf("REVIEWING")) :
        (criteria.require_critic_pass /\ FirstPass(k)
            /\ k < criteria.max_iterations)
            => /\ Len(CallsOf("PLANNING")) = k
               /\ Len(CallsOf("CODING")) = k
               /\ Len(CallsOf("REVIEWING")) = k
               /\ Len(CallsOf("FIX")) = k - 1
               /\ iteration = k
               /\ pc \in {"review_turn", "update_memory", "check", "finish",
                          "done"}
               /\ (pc \in {"finish", "done"}) => Status = "completed"
               /\ (pc = "done")
                    => get(conversation).metadata.iterations = Some(k)

C7_Witness ==
    /\ pc = "done"
    /\ criteria.require_critic_pass
    /\ criteria.max_iterations = 3
    /\ FirstPass(2)
    /\ CallsOf("REVIEWING")[1].response.verdict = None
    /\ Status = "completed"
    /\ get(conversation).metadata.iterations = Some(2)

\* C8 as stated: with max_iterations = N >= 1, when no review parses to
\* PASS the workflow runs exactly N iterations and returns with status
\* "failed" and metadata.iterations = N.
C8_NoPassRunsToCap ==
    (/\ Terminated
     /\ criteria.max_iterations >= 1
     /\ \A j \in 1..Len(CallsOf("REVIEWING")) :
            CallsOf("REVIEWING")[j].response.verdict # "PASS")
        => /\ pc = "done"
           /\ Len(CallsOf("PLANNING")) = criteria.max_iterations
           /\ Len(CallsOf("REVIEWING")) = criteria.max_iterations
           /\ Status = "failed"
           /\ get(conversation).metadata.iterations
                 = Some(criteria.max_iterations)

\* C9 as stated: whenever the context read at the start of an iteration is
\* longer than context_char_limit, compact() is invoked once, the context
\* is read again and the workflow proceeds to PLANNING; compact() is
\* invoked nowhere else.
C9_CompactThenPlanning ==
    [][/\ (pc = "loop"
            /\ read_context(memory_bank, ReadContextMaxChars).length
                  > criteria.context_char_limit)
          => /\ compact_calls' = compact_calls + 1
             /\ pc' = "planning"
             /\ context' = Some(read_context(memory_bank',
                                             ReadContextMaxChars))
       /\ (compact_calls' # compact_calls)
          => /\ pc = "loop"
             /\ read_context(memory_bank, ReadContextMaxChars).length
                  > criteria.context_char_limit]_vars

\* Number of program steps a run can still take, at most, when the cap is
\* max_iterations >= 1: twelve per iteration still to come, plus the steps
\* left in the current one.
StepsLeftInIteration ==
    CASE pc = "planning" -> 12
      [] pc = "plan_turn" -> 11
      [] pc = "coding" -> 10
      [] pc = "impl_turn" -> 9
      [] pc = "reviewing" -> 8
      [] pc = "review_turn" -> 7
      [] pc = "update_memory" -> 6
      [] pc = "check" -> 5
      [] pc = "fix" -> 4
      [] pc = "fix_turn" -> 3
      [] pc = "loop" -> 2
      [] pc = "idle" -> 3

Measure ==
    IF Terminated THEN 0
    ELSE IF pc = "finish" THEN 1
    ELSE 12 * (criteria.max_iterations - iteration) + StepsLeftInIteration

\* the positions from which the program takes a further step
RunningPcs == {"idle", "loop", "planning", "plan_turn", "coding", "impl_turn",
               "reviewing", "review_turn", "update_memory", "check", "fix",
               "fix_turn", "finish"}

\* C10: for max_iterations >= 1, whatever the backends return, the
\* workflow terminates and the iteration counter never exceeds
\* max_iterations: every step of the run strictly decreases Measure, which
\* never drops below zero, so no run takes infinitely many steps, and a
\* run that has not terminated is at a position with a next step.
C10_BoundedTermination ==
    /\ [](criteria.max_iterations >= 1
            => /\ iteration <= criteria.max_iterations
               /\ Measure >= 0
               /\ ~Terminated => pc \in RunningPcs)
    /\ [][criteria.max_iterations >= 1 => Measure' < Measure]_vars

C10_Witness ==
    /\ pc = "done"
    /\ criteria.max_iterations = MaxIterations
    /\ iteration = criteria.max_iterations
    /\ failures = MaxFailures
    /\ Len(calls) = 4 * MaxIterations - 1

(***************************************************************************)
(* SpecStop: should_stop as a pure function of its inputs                  *)
(***************************************************************************)
InitStop ==
    /\ criteria \in CriteriaSet
    /\ NoWriters
    /\ stop_args \in {Some(a) : a \in StopArgs}
    /\ stop_result = Nothing
    /\ AgentIdle
    /\ LogIdle
    /\ MoaIdle

CallShouldStop ==
    /\ stop_args # Nothing
    /\ stop_result = Nothing
    /\ stop_result' = should_stop(criteria, get(stop_args).iteration,
                                  get(stop_args).critic_verdict,
                                  get(stop_args).test_result)
    /\ UNCHANGED <<stop_args, agent_vars, race_vars, log_vars, moa_vars>>

NextStop == CallShouldStop

SpecStop == InitStop /\ [][NextStop]_vars

StopCalled == stop_args # Nothing /\ stop_result # Nothing

\* C1: should_stop returns (true, "max_iterations_reached") whenever
\* iteration >= max_iterations, whatever the verdict, the test result and
\* the two require_* settings.
C1_MaxIterationsReached ==
    (StopCalled /\ get(stop_args).iteration >= criteria.max_iterations)
        => stop_result = <<TRUE, "max_iterations_reached">>

C1_Witness ==
    /\ StopCalled
    /\ get(stop_args).iteration = criteria.max_iterations
    /\ get(stop_args).iteration >= 1
    /\ criteria.require_critic_pass
    /\ get(stop_args).critic_verdict = "PASS"
    /\ stop_result = <<TRUE, "max_iterations_reached">>

\* C2: below the cap, should_stop returns (true, "success") exactly when
\* require_critic_pass holds, the verdict is "PASS" and tests are either not
\* required or passed; every other call below the cap returns
\* (false, "continue").
C2_SuccessIffBelowCap ==
    (StopCalled /\ get(stop_args).iteration < criteria.max_iterations)
        => /\ stop_result \in {<<TRUE, "success">>, <<FALSE, "continue">>}
           /\ stop_result = <<TRUE, "success">>
                <=> /\ criteria.require_critic_pass
                    /\ get(stop_args).critic_verdict = "PASS"
                    /\ (~criteria.require_tests_pass \/ get(stop_args).test_result)

C2_Witness ==
    /\ StopCalled
    /\ get(stop_args).iteration < criteria.max_iterations
    /\ criteria.require_critic_pass
    /\ criteria.require_tests_pass
    /\ get(stop_args).critic_verdict = "PASS"
    /\ ~get(stop_args).test_result
    /\ stop_result = <<FALSE, "continue">>

\* C3 as stated: with require_critic_pass and without require_tests_pass,
\* verdict "PASS" returns (true, "success") at every iteration from 1 up to
\* and including max_iterations.
C3_PassUpToCapIsSuccess ==
    (/\ StopCalled
     /\ criteria.require_critic_pass
     /\ ~criteria.require_tests_pass
     /\ get(stop_args).critic_verdict = "PASS"
     /\ get(stop_args).iteration >= 1
     /\ get(stop_args).iteration <= criteria.max_iterations)
        => stop_result = <<TRUE, "success">>

\* C3 amended: with require_critic_pass and without require_tests_pass,
\* verdict "PASS" returns (true, "success") at every iteration from 1 up to
\* but not including max_iterations, and (true, "max_iterations_reached")
\* at iteration = max_iterations.
C3_PassBelowCapIsSuccess ==
    (/\ StopCalled
     /\ criteria.require_critic_pass
     /\ ~criteria.require_tests_pass
     /\ get(stop_args).critic_verdict = "PASS"
     /\ get(stop_args).iteration >= 1
     /\ get(stop_args).iteration <= criteria.max_iterations)
        => stop_result = IF get(stop_args).iteration < criteria.max_iterations
                         THEN <<TRUE, "success">>
                         ELSE <<TRUE, "max_iterations_reached">>

C3_Witness ==
    /\ StopCalled
    /\ criteria.require_critic_pass
    /\ ~criteria.require_tests_pass
    /\ get(stop_args).critic_verdict = "PASS"
    /\ get(stop_args).iteration >= 1
    /\ get(stop_args).iteration = criteria.max_iterations - 1
    /\ ~get(stop_args).test_result
    /\ stop_result = <<TRUE, "success">>

(***************************************************************************)
(* SpecAgent: Agent.invoke on one backend result                           *)
(***************************************************************************)
\* the context argument and the RunnerResult the backend returns
InvokeArgs ==
    [context : {"", "X"},
     content : Texts \cup ParserTexts,
     success : BOOLEAN]

\* ConvergenceCriteria(max_iterations = MaxIterations), the other fields
\* at their defaults
DefaultCriteria ==
    [max_iterations |-> MaxIterations, require_critic_pass |-> TRUE,
     require_tests_pass |-> FALSE, context_char_limit |-> 50000]

InitAgent ==
    /\ criteria = DefaultCriteria
    /\ NoWriters
    /\ stop_args = Nothing
    /\ stop_result = Nothing
    /\ invoke_args \in {Some(a) : a \in InvokeArgs}
    /\ invoke_result = Nothing
    /\ LogIdle
    /\ MoaIdle

\* response = agent.invoke("Test", context) on a backend that returns
\* RunnerResult(content, success)
CallInvoke ==
    /\ invoke_args # Nothing
    /\ invoke_result = Nothing
    /\ invoke_result' =
          Some(invoke("Test", len(get(invoke_args).context),
                      [content |-> get(invoke_args).content,
                       success |-> get(invoke_args).success]))
    /\ UNCHANGED <<stop_vars, invoke_args, race_vars, log_vars, moa_vars>>

NextAgent == CallInvoke

SpecAgent == InitAgent /\ [][NextAgent]_vars

Invoked == invoke_args # Nothing /\ invoke_result # Nothing
Response == get(invoke_result).response

\* the response text, upper-cased, and its final 100 characters
ContentUpper == upper(chars(get(invoke_args).content))
FinalPart ==
    IF Len(ContentUpper) > 100
    THEN SubSeq(ContentUpper, Len(ContentUpper) - 100 + 1, Len(ContentUpper))
    ELSE ContentUpper

PASS == <<"P", "A", "S", "S">>
FAIL == <<"F", "A", "I", "L">>

HasPassLabel ==
    \/ contains(ContentUpper, VerdictColonSpacePass)
    \/ contains(ContentUpper, VerdictColonPass)
HasFailLabel ==
    \/ contains(ContentUpper, VerdictColonSpaceFail)
    \/ contains(ContentUpper, VerdictColonFail)
HasNeedsRevision == contains(ContentUpper, NeedsRevision)

IsLetter(c) == \E i \in 1..26 : UpperCase[i] = c \/ LowerCase[i] = c

\* tok stands alone at the end of s: s, whitespace stripped, ends with tok
\* and no letter precedes it
AloneAtEnd(s, tok) ==
    /\ endswith(strip(s), tok)
    /\ \/ Len(strip(s)) = Len(tok)
       \/ ~IsLetter(strip(s)[Len(strip(s)) - Len(tok)])

\* tok stands alone on a line of s: some line of s, whitespace stripped,
\* is tok
AloneOnLine(s, tok) ==
    \E i \in 1..Len(s), j \in 1..Len(s) :
        /\ i <= j
        /\ (i = 1 \/ s[i - 1] = "\n")
        /\ (j = Len(s) \/ s[j + 1] = "\n")
        /\ \A k \in i..j : s[k] # "\n"
        /\ strip(SubSeq(s, i, j)) = tok

HasBareToken(tok) ==
    AloneAtEnd(ContentUpper, tok) \/ AloneOnLine(ContentUpper, tok)

\* tok occurs in s
Occurs(s, tok) == contains(s, tok)

\* C11 as stated: for every backend result with success = false, whatever
\* its content, invoke returns an AgentResponse with success = false and
\* verdict = null.
C11_FailureHasNoVerdict ==
    (Invoked /\ ~get(invoke_args).success)
        => /\ Response.success = FALSE
           /\ Response.verdict = None

\* C12 as stated: a text that contains a labelled PASS token parses to
\* PASS and a text that contains a labelled FAIL token parses to FAIL,
\* whatever else the text contains.
C12_LabelledTokenDecides ==
    Invoked => /\ HasPassLabel => Response.verdict = "PASS"
               /\ HasFailLabel => Response.verdict = "FAIL"

\* C12 amended: a text that contains a labelled PASS token parses to PASS;
\* a text that contains a labelled FAIL token and no labelled PASS token
\* parses to FAIL; in both cases whatever bare trailing token or
\* NEEDS_REVISION substring the text also contains.
C12_PassLabelBeforeFailLabel ==
    Invoked => /\ HasPassLabel => Response.verdict = "PASS"
               /\ (HasFailLabel /\ ~HasPassLabel) => Response.verdict = "FAIL"

C12_Witness ==
    /\ Invoked
    /\ HasFailLabel
    /\ ~HasPassLabel
    /\ AloneOnLine(ContentUpper, PASS)
    /\ Response.verdict = "FAIL"

\* C13 as stated: a text with no labelled token, no bare PASS / FAIL token
\* standing alone at the end of the text or alone on a line, and no
\* NEEDS_REVISION substring parses to null.
C13_NoVerdictFromProse ==
    (/\ Invoked
     /\ ~HasPassLabel
     /\ ~HasFailLabel
     /\ ~HasBareToken(PASS)
     /\ ~HasBareToken(FAIL)
     /\ ~HasNeedsRevision)
        => Response.verdict = None

\* C14: without a labelled token, the verdict is PASS (FAIL) only if PASS
\* (FAIL) occurs within the final 100 characters of the text, so a token
\* that occurs only earlier yields neither; and the verdict is
\* NEEDS_REVISION only if the text contains that substring, has no
\* labelled token and no bare token at the end or at the start of a line
\* of its final 100 characters.
C14_BareTokenOnlyInTail ==
    Invoked
        => /\ (~HasPassLabel /\ ~HasFailLabel)
                => /\ Response.verdict = "PASS" => Occurs(FinalPart, PASS)
                   /\ Response.verdict = "FAIL" => Occurs(FinalPart, FAIL)
           /\ Response.verdict = "NEEDS_REVISION"
                => /\ HasNeedsRevision
                   /\ ~HasPassLabel
                   /\ ~HasFailLabel
                   /\ \A tok \in {PASS, FAIL} :
                         /\ ~endswith(strip(FinalPart), tok)
                         /\ ~contains(FinalPart, <<"\n">> \o tok)

C14_Witness ==
    /\ Invoked
    /\ ~HasPassLabel
    /\ ~HasFailLabel
    /\ Len(ContentUpper) > 100
    /\ AloneOnLine(ContentUpper, PASS)
    /\ ~Occurs(FinalPart, PASS)
    /\ Response.verdict = None

(***************************************************************************)
(* SpecLog: Conversation and the Orchestrator operations on it             *)
(***************************************************************************)
\* no call starts unless the conversations and turns it can create fit
\* into this many objects, counted over the whole heap
MaxLogSize == 4
\* the clock stops after this many ticks
MaxClock == 2

Max(a, b) == IF a > b THEN a ELSE b

\* seq[start:] of Python, start of either sign
slice_from(seq, start) ==
    LET from == IF start < 0 THEN Max(Len(seq) + start, 0)
                ELSE Min(start, Len(seq))
    IN SubSeq(seq, from + 1, Len(seq))

\* the pieces get_context joins: "Goal: {goal}\n" and, per turn,
\* "\n[{agent_name} ({role.value})]:\n{response}\n"
GoalPart(g) == [part |-> "Goal", goal |-> g]
TurnPart(turn) ==
    [part |-> "turn", agent_name |-> turn.agent_name, role |-> turn.role,
     response |-> turn.response]

\* Conversation.get_context(max_turns)
get_context(conv, max_turns_arg) ==
    LET recent == IF Len(conv.turns) > max_turns_arg
                  THEN slice_from(conv.turns, 0 - max_turns_arg)
                  ELSE conv.turns
    IN <<GoalPart(conv.goal)>> \o [i \in 1..Len(recent) |-> TurnPart(recent[i])]

\* Conversation.get_last_response
get_last_response(conv) ==
    IF conv.turns # <<>>
    THEN Some(conv.turns[Len(conv.turns)].response)
    ELSE Nothing

\* the profiles of the registry and the role of each
Profiles == {"architect", "analyzer"}
ProfileRole(name) ==
    CASE name = "architect" -> "architect"
      [] name = "analyzer" -> "analyst"

\* agent names handed to the orchestrator: registered ones and one that
\* is not registered
AgentNames == Profiles \cup {"ghost"}

\* what profile.runner.run returns to run_agent
RunnerResults ==
    {[content |-> "plan", success |-> TRUE],
     [content |-> "", success |-> FALSE]}

\* Orchestrator.run_agent: ValueError for an unknown profile; otherwise
\* the prompt gets the conversation's context when asked for and when
\* there are turns, the backend is run and the turn is appended
run_agent(conv, agent_name, task, include_context, result) ==
    IF agent_name \notin Profiles
    THEN [raised |-> TRUE, conv |-> conv, turn |-> Nothing,
          context |-> Nothing]
    ELSE LET turn == ConversationTurn(agent_name, ProfileRole(agent_name),
                                      task, result)
         IN [raised |-> FALSE,
             conv |-> add_turn(conv, turn),
             turn |-> Some(turn),
             context |-> IF include_context /\ conv.turns # <<>>
                         THEN Some(get_context(conv, 10))
                         ELSE Nothing]

LogGoals == {"X"}
\* the max_turns argument of get_context
MaxTurnsArgs == {0, 1, 2}

RECURSIVE TotalTurns(_)
TotalTurns(h) ==
    IF h = <<>> THEN 0 ELSE Len(Head(h).turns) + TotalTurns(Tail(h))

\* n more objects (conversations, turns) fit
Room(n) == Len(heap) + TotalTurns(heap) + n <= MaxLogSize

\* turns handed to add_turn directly
DirectTurns ==
    {ConversationTurn("architect", "architect", "task",
                      [content |-> "plan", success |-> TRUE]),
     ConversationTurn("analyzer", "analyst", "task",
                      [content |-> "", success |-> FALSE])}

\* the workflow argument of run_workflow: the agent name of each step
\* (every step's task is "task")
Workflows ==
    {<<>>, <<"architect">>, <<"ghost">>, <<"architect", "analyzer">>,
     <<"analyzer", "architect">>, <<"architect", "ghost">>,
     <<"architect", "analyzer", "architect">>}

\* the agents and max_iterations arguments of run_loop
AgentLists == {<<"architect">>, <<"architect", "analyzer">>}
LoopIterations == {0, 1, 2}

\* a direct call is made while no orchestrator call is under way
Idle == pc = "idle" /\ frame = Nothing

\* ConvergenceCriteria(max_iterations = 2)
LogCriteria ==
    [max_iterations |-> 2, require_critic_pass |-> TRUE,
     require_tests_pass |-> FALSE, context_char_limit |-> 50000]

InitLog ==
    /\ criteria = LogCriteria
    /\ NoWriters
    /\ stop_args = Nothing
    /\ stop_result = Nothing
    /\ AgentIdle
    /\ clock = 0
    /\ max_turns \in {1, 3, 20}
    /\ heap = <<>>
    /\ conversations = <<>>
    /\ frame = Nothing
    /\ returned = Nothing
    /\ MoaIdle

\* time passes between two calls; the first call is made at time 0 and
\* the clock is no longer read once no conversation can be created
Tick ==
    /\ Idle
    /\ clock < MaxClock
    /\ heap # <<>>
    /\ Room(1)
    /\ clock' = clock + 1
    /\ UNCHANGED <<unit_vars, max_turns, heap, conversations, frame, returned,
                   moa_vars>>

\* orchestrator.create_conversation(goal), lines 173-178
CreateConversation ==
    /\ Idle
    /\ Room(1)
    /\ \E g \in LogGoals :
          LET conv == create_conversation(g, clock)
              ref == Len(heap) + 1
          IN /\ heap' = Append(heap, conv)
             /\ conversations' = put(conversations, conv.id, ref)
             /\ returned' = Some([op |-> "create_conversation", ref |-> ref])
    /\ UNCHANGED <<unit_vars, clock, max_turns, frame, moa_vars>>

\* conversation.add_turn(turn), lines 111-112
AddTurn ==
    /\ Idle
    /\ \E ref \in 1..Len(heap), turn \in DirectTurns :
          /\ Room(1)
          /\ heap' = [heap EXCEPT ![ref] = add_turn(@, turn)]
          /\ returned' = Nothing
    /\ UNCHANGED <<unit_vars, clock, max_turns, conversations, frame, moa_vars>>

\* conversation.get_context(max_turns), lines 114-124
GetContext ==
    /\ Idle
    /\ \E ref \in 1..Len(heap), m \in MaxTurnsArgs :
          returned' = Some([op |-> "get_context", ref |-> ref,
                            max_turns |-> m,
                            value |-> get_context(heap[ref], m)])
    /\ UNCHANGED <<unit_vars, clock, max_turns, heap, conversations, frame,
                   moa_vars>>

\* conversation.get_last_response(), lines 126-130
GetLastResponse ==
    /\ Idle
    /\ \E ref \in 1..Len(heap) :
          returned' = Some([op |-> "get_last_response", ref |-> ref,
                            value |-> get_last_response(heap[ref])])
    /\ UNCHANGED <<unit_vars, clock, max_turns, heap, conversations, frame,
                   moa_vars>>

\* orchestrator.run_agent(conversation, agent_name, "task", include_context),
\* lines 180-237
RunAgent ==
    /\ Idle
    /\ \E ref \in 1..Len(heap), name \in AgentNames,
          include_context \in BOOLEAN, result \in RunnerResults :
          LET out == run_agent(heap[ref], name, "task", include_context, result)
          IN /\ Room(1)
             /\ heap' = [heap EXCEPT ![ref] = out.conv]
             /\ returned' = Some([op |-> "run_agent", ref |-> ref,
                                  raised |-> out.raised, turn |-> out.turn])
    /\ UNCHANGED <<unit_vars, clock, max_turns, conversations, frame, moa_vars>>

\* run_workflow(goal, workflow), line 256: the conversation is created
StartWorkflow ==
    /\ Idle
    /\ \E g \in LogGoals, workflow \in Workflows :
          LET conv == create_conversation(g, clock)
              ref == Len(heap) + 1
          IN /\ Room(1 + Len(workflow))
             /\ heap' = Append(heap, conv)
             /\ conversations' = put(conversations, conv.id, ref)
             /\ frame' = Some([op |-> "run_workflow", ref |-> ref,
                               at |-> "step", workflow |-> workflow,
                               i |-> 0])
    /\ returned' = Nothing
    /\ UNCHANGED <<unit_vars, clock, max_turns, moa_vars>>

WorkflowStep_continuing ==
    /\ frame # Nothing
    /\ get(frame).op = "run_workflow"
    /\ get(frame).at = "step"
    /\ get(frame).i < Len(get(frame).workflow)
    /\ \E result \in RunnerResults :
          LET f == get(frame)
              task == IF f.i > 0 THEN "Based on the above, task" ELSE "task"
              out == run_agent(heap[f.ref], f.workflow[f.i + 1], task,
                               f.i > 0, result)
          IN IF out.raised
             THEN /\ frame' = Nothing
                  /\ returned' = Some([op |-> "run_workflow", ref |-> f.ref,
                                       raised |-> TRUE,
                                       workflow |-> f.workflow])
                  /\ UNCHANGED heap
             ELSE /\ returned' = Nothing
                  /\ IF ~get(out.turn).success
                     THEN /\ heap' = [heap EXCEPT ![f.ref] =
                                         [out.conv EXCEPT !.status = "failed"]]
                          /\ frame' = Some([f EXCEPT !.i = f.i + 1])
                     ELSE /\ heap' = [heap EXCEPT ![f.ref] = out.conv]
                          /\ frame' = Some([f EXCEPT !.i = f.i + 1])
    /\ UNCHANGED <<unit_vars, clock, max_turns, conversations, moa_vars>>

\* one round of the for loop of run_workflow, lines 258-279: the step's
\* agent is run, with the context from the second step on; a failed turn
\* sets the status to "failed" and leaves the loop; an unknown agent
\* makes run_agent raise, which ends the call
WorkflowStep ==
    /\ frame # Nothing
    /\ get(frame).op = "run_workflow"
    /\ get(frame).at = "step"
    /\ get(frame).i < Len(get(frame).workflow)
    /\ \E result \in RunnerResults :
          LET f == get(frame)
              task == IF f.i > 0 THEN "Based on the above, task" ELSE "task"
              out == run_agent(heap[f.ref], f.workflow[f.i + 1], task,
                               f.i > 0, result)
          IN IF out.raised
             THEN /\ frame' = Nothing
                  /\ returned' = Some([op |-> "run_workflow", ref |-> f.ref,
                                       raised |-> TRUE,
                                       workflow |-> f.workflow])
                  /\ UNCHANGED heap
             ELSE /\ returned' = Nothing
                  /\ IF ~get(out.turn).success
                     THEN /\ heap' = [heap EXCEPT ![f.ref] =
                                         [out.conv EXCEPT !.status = "failed"]]
                          /\ frame' = Some([f EXCEPT !.at = "finish"])
                     ELSE /\ heap' = [heap EXCEPT ![f.ref] = out.conv]
                          /\ frame' = Some([f EXCEPT !.i = f.i + 1])
    /\ UNCHANGED <<unit_vars, clock, max_turns, conversations, moa_vars>>

\* lines 281-284 of run_workflow: the status is set and the conversation
\* returned
WorkflowFinish ==
    /\ frame # Nothing
    /\ get(frame).op = "run_workflow"
    /\ \/ get(frame).at = "finish"
       \/ get(frame).i >= Len(get(frame).workflow)
    /\ LET f == get(frame)
       IN /\ heap' = [heap EXCEPT ![f.ref].status =
                         IF @ # "failed" THEN "completed" ELSE @]
          /\ returned' = Some([op |-> "run_workflow", ref |-> f.ref,
                               raised |-> FALSE, workflow |-> f.workflow])
    /\ frame' = Nothing
    /\ UNCHANGED <<unit_vars, clock, max_turns, conversations, moa_vars>>

\* run_loop(goal, agents, "task", stop_condition, max_iterations), line
\* 307: the conversation is created
StartLoop ==
    /\ Idle
    /\ \E g \in LogGoals, agents \in AgentLists,
          stop_condition \in {None, "function"},
          max_iterations \in LoopIterations :
          LET conv == create_conversation(g, clock)
              ref == Len(heap) + 1
          IN /\ Room(1 + Min(Max(1, max_turns),
                              1 + max_iterations * Len(agents)))
             /\ heap' = Append(heap, conv)
             /\ conversations' = put(conversations, conv.id, ref)
             /\ frame' = Some([op |-> "run_loop", ref |-> ref, at |-> "first",
                               agents |-> agents,
                               stop_condition |-> stop_condition,
                               max_iterations |-> max_iterations,
                               iteration |-> 0, agent_index |-> 1])
    /\ returned' = Nothing
    /\ UNCHANGED <<unit_vars, clock, max_turns, moa_vars>>

\* lines 310-315 of run_loop: the first agent runs on the initial prompt,
\* whatever the result
LoopFirst ==
    /\ frame # Nothing
    /\ get(frame).op = "run_loop"
    /\ get(frame).at = "first"
    /\ \E result \in RunnerResults :
          LET f == get(frame)
              out == run_agent(heap[f.ref], f.agents[1], "task", FALSE, result)
          IN /\ heap' = [heap EXCEPT ![f.ref] = out.conv]
             /\ frame' = Some([f EXCEPT !.at = "loop"])
    /\ UNCHANGED <<unit_vars, clock, max_turns, conversations, returned,
                   moa_vars>>

LoopStep_without_turn_limit ==
    /\ frame # Nothing
    /\ get(frame).op = "run_loop"
    /\ get(frame).at = "loop"
    /\ LET f == get(frame)
           n == Len(f.agents)
       IN \/ /\ ~(f.iteration < f.max_iterations)
             /\ frame' = Some([f EXCEPT !.at = "finish"])
             /\ UNCHANGED heap
          \/ /\ f.iteration < f.max_iterations
             /\ \E stops \in IF f.stop_condition = None
                             THEN {FALSE} ELSE BOOLEAN :
                   IF stops
                   THEN /\ frame' = Some([f EXCEPT !.at = "finish"])
                        /\ UNCHANGED heap
                   ELSE \E result \in RunnerResults :
                          LET out == run_agent(heap[f.ref],
                                         f.agents[(f.agent_index % n) + 1],
                                         "Review and continue: last_response",
                                         TRUE, result)
                              next_index == f.agent_index + 1
                          IN /\ heap' = [heap EXCEPT ![f.ref] = out.conv]
                             /\ frame' =
                                  IF ~get(out.turn).success
                                  THEN Some([f EXCEPT !.at = "finish"])
                                  ELSE Some([f EXCEPT
                                         !.agent_index = next_index,
                                         !.iteration =
                                            IF next_index % n = 0
                                            THEN f.iteration + 1
                                            ELSE f.iteration])
    /\ UNCHANGED <<unit_vars, clock, max_turns, conversations, returned,
                   moa_vars>>

\* one round of the while loop of run_loop, lines 317-344: the loop is
\* left at the iteration cap, when the stop condition says so, at the
\* turn limit, and after a failed turn; otherwise the next agent in
\* round-robin order runs on the hand-off prompt
LoopStep ==
    /\ frame # Nothing
    /\ get(frame).op = "run_loop"
    /\ get(frame).at = "loop"
    /\ LET f == get(frame)
           n == Len(f.agents)
       IN \/ /\ ~(f.iteration < f.max_iterations)
             /\ frame' = Some([f EXCEPT !.at = "finish"])
             /\ UNCHANGED heap
          \/ /\ f.iteration < f.max_iterations
             /\ \E stops \in IF f.stop_condition = None
                             THEN {FALSE} ELSE BOOLEAN :
                   IF stops \/ Len(heap[f.ref].turns) >= max_turns
                   THEN /\ frame' = Some([f EXCEPT !.at = "finish"])
                        /\ UNCHANGED heap
                   ELSE \E result \in RunnerResults :
                          LET out == run_agent(heap[f.ref],
                                         f.agents[(f.agent_index % n) + 1],
                                         "Review and continue: last_response",
                                         TRUE, result)
                              next_index == f.agent_index + 1
                          IN /\ heap' = [heap EXCEPT ![f.ref] = out.conv]
                             /\ frame' =
                                  IF ~get(out.turn).success
                                  THEN Some([f EXCEPT !.at = "finish"])
                                  ELSE Some([f EXCEPT
                                         !.agent_index = next_index,
                                         !.iteration =
                                            IF next_index % n = 0
                                            THEN f.iteration + 1
                                            ELSE f.iteration])
    /\ UNCHANGED <<unit_vars, clock, max_turns, conversations, returned,
                   moa_vars>>

\* lines 346-347 of run_loop: status "completed", the conversation is
\* returned
LoopFinish ==
    /\ frame # Nothing
    /\ get(frame).op = "run_loop"
    /\ get(frame).at = "finish"
    /\ heap' = [heap EXCEPT ![get(frame).ref].status = "completed"]
    /\ returned' = Some([op |-> "run_loop", ref |-> get(frame).ref,
                         raised |-> FALSE, agents |-> get(frame).agents,
                         max_iterations |-> get(frame).max_iterations])
    /\ frame' = Nothing
    /\ UNCHANGED <<unit_vars, clock, max_turns, conversations, moa_vars>>

\* run_moa_workflow on an orchestrator that has made no other call
RunMoA ==
    /\ heap = <<>>
    /\ frame = Nothing
    /\ Next

NextLog ==
    \/ Tick
    \/ CreateConversation
    \/ AddTurn
    \/ GetContext
    \/ GetLastResponse
    \/ RunAgent
    \/ StartWorkflow
    \/ WorkflowStep
    \/ WorkflowFinish
    \/ StartLoop
    \/ LoopFirst
    \/ LoopStep
    \/ LoopFinish
    \/ RunMoA

SpecLog == InitLog /\ [][NextLog]_vars

IsPrefix(a, b) == Len(a) <= Len(b) /\ SubSeq(b, 1, Len(a)) = a

\* the turns of each conversation before a step are, in the same order
\* and with the same field values, the first turns of that conversation
\* after the step, which has at most one turn more
TurnsKept ==
    /\ Len(heap') >= Len(heap)
    /\ \A ref \in 1..Len(heap) :
          /\ IsPrefix(heap[ref].turns, heap'[ref].turns)
          /\ Len(heap'[ref].turns) <= Len(heap[ref].turns) + 1
    /\ conversation # Nothing
          => /\ conversation' # Nothing
             /\ IsPrefix(get(conversation).turns, get(conversation').turns)
             /\ Len(get(conversation').turns)
                   <= Len(get(conversation).turns) + 1

\* the step is an add_turn call that appended turn to conversation ref
Appended(ref, turn) ==
    /\ Len(heap') = Len(heap)
    /\ heap'[ref].turns = Append(heap[ref].turns, turn)
    /\ \A other \in 1..Len(heap) :
          other # ref => heap'[other].turns = heap[other].turns

\* C15: every add_turn call increases the turn count by exactly one and
\* puts the new turn last, and every step of every operation (add_turn,
\* get_context, get_last_response, run_agent, run_workflow, run_loop,
\* run_moa_workflow) keeps the turns recorded before it at their positions
\* and with their field values.
C15_AppendOnly ==
    /\ [][AddTurn => \E ref \in 1..Len(heap), turn \in DirectTurns :
                         Appended(ref, turn)]_vars
    /\ [][TurnsKept]_vars

C15_Witness ==
    /\ Len(heap) = 1
    /\ heap[1].status = "completed"
    /\ Len(heap[1].turns) = 3
    /\ heap[1].turns[1].prompt = "task"
    /\ heap[1].turns[2].prompt = "Based on the above, task"
    /\ heap[1].turns[3] \in DirectTurns
    /\ frame = Nothing

\* the last call was get_context, on a conversation with n turns
GotContext == returned # Nothing /\ get(returned).op = "get_context"
ContextConv == heap[get(returned).ref]

\* C16 as stated: for every max_turns >= 0, get_context(max_turns) renders
\* the goal followed by exactly the min(max_turns, number of turns) most
\* recent turns, oldest first.
C16_RendersMostRecent ==
    GotContext
        => LET turns == ContextConv.turns
               k == Min(get(returned).max_turns, Len(turns))
               value == get(returned).value
           IN /\ Len(value) = 1 + k
              /\ value[1] = GoalPart(ContextConv.goal)
              /\ \A i \in 1..k :
                    value[1 + i] = TurnPart(turns[Len(turns) - k + i])

\* the last call was create_conversation
Created == returned # Nothing /\ get(returned).op = "create_conversation"

\* C17 as stated: create_conversation returns a conversation with no
\* turns, status "active" and an id that no conversation created earlier
\* has, and every conversation created stays registered under its own id.
C17_FreshId ==
    /\ Created
          => /\ heap[get(returned).ref].turns = <<>>
             /\ heap[get(returned).ref].status = "active"
             /\ \A earlier \in 1..(get(returned).ref - 1) :
                   heap[earlier].id # heap[get(returned).ref].id
    /\ \A ref \in 1..Len(heap) :
          /\ heap[ref].id \in DOMAIN conversations
          /\ conversations[heap[ref].id] = ref

(***************************************************************************)
(* SpecBank: the MemoryBank operations on one directory                    *)
(***************************************************************************)
BankGoals == {"X", "plan"}
BankInfos == {"", "Y"}
\* the content argument of update_active_context
ContentTexts == {"", "Y", "the tests passed successfully"}
\* the max_chars argument of read_context: below every context, between
\* the contexts that occur, and the default
MaxCharsArgs == {0, 600, 50000}

\* the arguments of append_pattern
PatternNames == {"P", "Q"}
PatternContents == {"Y"}

\* the operations that write files
WriteOps == {"initialize", "update_active_context",
             "append_to_active_context", "append_pattern", "clear"}

\* the last write call made, Nothing when there was none
LastWrite ==
    IF returned = Nothing THEN Nothing
    ELSE IF get(returned).op \in WriteOps THEN returned
    ELSE get(returned).after

\* MemoryBank(base_dir) on a directory without files
InitBank ==
    /\ criteria = DefaultCriteria
    /\ NoWriters
    /\ stop_args = Nothing
    /\ stop_result = Nothing
    /\ AgentIdle
    /\ LogIdle
    /\ MoaIdle

\* time passes between two calls
BankTick ==
    /\ clock < MaxClock
    /\ clock' = clock + 1
    /\ UNCHANGED <<unit_vars, max_turns, heap, conversations, frame, returned,
                   moa_vars>>

\* the variables a MemoryBank call leaves alone
bank_frame == <<unit_vars, clock, max_turns, heap, conversations, frame,
                criteria, goal, critic_given, pc, iteration, conversation,
                current_status, context, plan_response, impl_response,
                review_response, fix_response, stop, calls, compact_calls,
                failures>>

\* bank.initialize(goal, project_info), lines 65-127
Initialize ==
    /\ \E g \in BankGoals, info \in BankInfos :
          /\ memory_bank' = initialize(memory_bank, g, info, clock)
          /\ returned' = Some([op |-> "initialize", goal |-> g,
                               project_info |-> info, at |-> clock])
    /\ UNCHANGED bank_frame

\* bank.read_context(max_chars), lines 129-155
ReadContext ==
    /\ \E max_chars \in MaxCharsArgs :
          returned' = Some([op |-> "read_context", max_chars |-> max_chars,
                            value |-> read_context(memory_bank, max_chars),
                            after |-> LastWrite])
    /\ UNCHANGED memory_bank
    /\ UNCHANGED bank_frame

\* bank.read_active_context(), lines 157-161
ReadActiveContext ==
    /\ returned' = Some([op |-> "read_active_context",
                         value |-> read_active_context(memory_bank),
                         after |-> LastWrite])
    /\ UNCHANGED memory_bank
    /\ UNCHANGED bank_frame

\* bank.update_active_context(content), lines 163-172
UpdateActiveContext ==
    /\ \E t \in ContentTexts :
          /\ memory_bank' = update_active_context(memory_bank, TextContent(t),
                                                  clock)
          /\ returned' = Some([op |-> "update_active_context", content |-> t,
                               at |-> clock])
    /\ UNCHANGED bank_frame

\* the entries of the system-patterns file
PatternEntries(bank) ==
    IF bank.patterns = Nothing THEN <<>> ELSE get(bank.patterns).entries

\* bank.append_pattern(pattern_name, pattern_content), lines 215-230
AppendPattern ==
    /\ Len(PatternEntries(memory_bank)) < MaxPatterns
    /\ \E name \in PatternNames, content \in PatternContents :
          /\ memory_bank' = append_pattern(memory_bank, name, content)
          /\ returned' = Some([op |-> "append_pattern", name |-> name,
                               content |-> content, at |-> clock])
    /\ UNCHANGED bank_frame

\* bank.clear(), lines 297-304
Clear ==
    /\ memory_bank' = clear(memory_bank)
    /\ returned' = Some([op |-> "clear", at |-> clock])
    /\ UNCHANGED bank_frame

NextBank ==
    \/ BankTick
    \/ Initialize
    \/ ReadContext
    \/ ReadActiveContext
    \/ UpdateActiveContext
    \/ AppendPattern
    \/ Clear

SpecBank == InitBank /\ [][NextBank]_vars

\* the last call was op
Returned(op) == returned # Nothing /\ get(returned).op = op

\* the last call was a read made after the write call op, with no other
\* write between
ReadAfter(read, op) ==
    /\ Returned(read)
    /\ get(returned).after # Nothing
    /\ get(get(returned).after).op = op

\* C18: after initialize(goal, info) the active context records status
\* INITIALIZED, phase PLANNING and iteration 0, and a read_context made
\* then returns the product section holding goal and info, the active
\* section and the patterns section, in this order, each under its own
\* header.
C18_InitializeSeeds ==
    /\ Returned("initialize")
          => /\ memory_bank.active # Nothing
             /\ get(memory_bank.active).status = "INITIALIZED"
             /\ get(memory_bank.active).phase = "PLANNING"
             /\ get(memory_bank.active).iteration = 0
    /\ ReadAfter("read_context", "initialize")
          => LET sections == get(returned).value.sections
                 call == get(get(returned).after)
             IN /\ Len(sections) = 3
                /\ sections[1].header = "=== PRODUCT CONTEXT ==="
                /\ sections[1].body.goal = call.goal
                /\ sections[1].body.project_info = call.project_info
                /\ sections[2].header = "=== ACTIVE CONTEXT ==="
                /\ sections[2].body.status = "INITIALIZED"
                /\ sections[2].body.phase = "PLANNING"
                /\ sections[2].body.iteration = 0
                /\ sections[3].header = "=== SYSTEM PATTERNS ==="
                /\ sections[3].body.entries = <<>>

C18_Witness ==
    /\ ReadAfter("read_context", "initialize")
    /\ get(get(returned).after).goal = "X"
    /\ get(get(returned).after).at > 0
    /\ get(returned).value.sections[1].body.goal = "X"
    /\ get(returned).max_chars = 50000
    /\ ~get(returned).value.warning

\* the length of a file of the bank
ProductLen(doc) == ProductTemplateLen + len(doc.goal) + len(doc.project_info)
PatternsLen(doc) ==
    (IF doc.template THEN 250 ELSE 0) + 6 * Len(doc.entries)
        + SumLens([i \in 1..Len(doc.entries) |->
                      len(doc.entries[i].name) + len(doc.entries[i].content)])

\* the combined length of the sections: each existing file with its
\* header line, two newlines between sections
CombinedLen(bank) ==
    LET lens == (IF bank.product # Nothing
                 THEN <<ProductHeaderLen + ProductLen(get(bank.product))>>
                 ELSE <<>>)
                \o (IF bank.active # Nothing
                    THEN <<ActiveSectionHeaderLen
                             + active_len(get(bank.active))>>
                    ELSE <<>>)
                \o (IF bank.patterns # Nothing
                    THEN <<PatternsHeaderLen + PatternsLen(get(bank.patterns))>>
                    ELSE <<>>)
    IN SumLens(lens) + (IF Len(lens) > 1 THEN 2 * (Len(lens) - 1) ELSE 0)

AfterUpdate == pc \in {"check", "fix", "fix_turn", "finish", "done"}

\* C24: in every iteration, the last one included, the active context is
\* overwritten after the REVIEWING turn is recorded and before the
\* convergence check: the step that leads to the check is the one that
\* writes the document, it starts with the review turn as the last turn,
\* and from the check until the next iteration (or the return) the active
\* context is the progress document of this iteration alone, with this
\* iteration's number, the verdict of its review (PENDING for none) and
\* the excerpts of its plan, implementation and review.
C24_ActiveContextEachIteration ==
    /\ [](AfterUpdate
            => /\ memory_bank.active # Nothing
               /\ LET a == get(memory_bank.active)
                      v == get(review_response).verdict
                  IN /\ a.kind = "progress"
                     /\ a.text = None
                     /\ a.status = "ITERATION"
                     /\ a.iteration = iteration
                     /\ a.verdict = IF v = None THEN "PENDING" ELSE v
                     /\ a.plan = slice(get(plan_response).content, 500)
                     /\ a.impl = slice(get(impl_response).content, 500)
                     /\ a.review = slice(get(review_response).content, 500))
    /\ []((pc = "update_memory")
            => /\ Len(Turns) = 4 * iteration - 1
               /\ Turns[Len(Turns)].role = "reviewer"
               /\ Turns[Len(Turns)].response = get(review_response).content)
    /\ [][/\ (pc' = "check") => (pc = "update_memory")
          /\ (pc = "update_memory") => (pc' = "check")
          /\ (stop' # stop) => (pc = "check")
          /\ (memory_bank'.active # memory_bank.active)
                => pc \in {"idle", "loop", "update_memory"}]_vars

C24_Witness ==
    /\ pc = "done"
    /\ iteration = 2
    /\ get(memory_bank.active).iteration = 2
    /\ get(memory_bank.active).verdict = "PENDING"
    /\ calls[3].response.verdict = "FAIL"
    /\ stop = <<TRUE, "max_iterations_reached">>

\* C26: when run_moa_workflow has returned after k iterations, the
\* conversation holds 4k - 1 turns with the roles architect, implementer,
\* reviewer, implementer (the fix) in each of the first k - 1 iterations
\* and architect, implementer, reviewer in the last, and
\* metadata.iterations is k, the number of architect turns.
C26_TurnsAtReturn ==
    (pc = "done")
        => LET k == iteration
           IN /\ k >= 1
              /\ get(conversation).metadata.iterations = Some(k)
              /\ Len(Turns) = 4 * k - 1
              /\ \A i \in 1..Len(Turns) :
                    Turns[i].role
                       = <<"architect", "implementer", "reviewer",
                           "implementer">>[((i - 1) % 4) + 1]
              /\ \A i \in 1..Len(Turns) :
                    (i % 4 = 0) <=> (Turns[i].prompt = "Fix based on feedback")
              /\ Turns[Len(Turns)].role = "reviewer"
              /\ Cardinality({i \in 1..Len(Turns) :
                                 Turns[i].role = "architect"}) = k

C26_Witness ==
    /\ pc = "done"
    /\ iteration = 3
    /\ Len(Turns) = 11
    /\ Turns[8].prompt = "Fix based on feedback"
    /\ Turns[11].role = "reviewer"
    /\ get(conversation).metadata.iterations = Some(3)

\* C27 as stated: with require_critic_pass = false no convergence check
\* returns the reason "success", and every run goes on until the
\* iteration cap and returns with status "failed", whatever the reviews
\* parse to.
C27_NoSuccessWithoutCriticPass ==
    (~criteria.require_critic_pass)
        => /\ (stop # Nothing) => (stop[2] # "success")
           /\ Terminated
                => /\ pc = "done"
                   /\ Status = "failed"
                   /\ stop = <<TRUE, "max_iterations_reached">>
                   /\ iteration = IF criteria.max_iterations > 1
                                  THEN criteria.max_iterations ELSE 1

\* a review whose text holds a labelled PASS and a labelled FAIL
HoldsBothLabels(content) ==
    LET content_upper == upper(chars(content))
    IN /\ \/ contains(content_upper, VerdictColonSpacePass)
          \/ contains(content_upper, VerdictColonPass)
       /\ \/ contains(content_upper, VerdictColonSpaceFail)
          \/ contains(content_upper, VerdictColonFail)

\* the run stopped with success on the review that is call i
StopsWithSuccessOn(i) ==
    /\ i = Len(calls)
    /\ pc \in {"review_turn", "update_memory", "check", "finish", "done"}
    /\ (pc \in {"finish", "done"})
          => /\ stop = <<TRUE, "success">>
             /\ Status = "completed"

\* C28 as stated: a review that holds both labels parses to PASS, in
\* whichever order the labels occur, and the run stops with success on
\* that review when its iteration is below max_iterations.
C28_BothLabelsPass ==
    \A i \in 1..Len(calls) :
        (calls[i].phase = "REVIEWING"
            /\ HoldsBothLabels(calls[i].response.content))
            => /\ calls[i].response.verdict = "PASS"
               /\ (calls[i].iteration < criteria.max_iterations)
                     => StopsWithSuccessOn(i)

\* C28, amended: a review that holds both labels parses to PASS, in
\* whichever order the labels occur, and with require_critic_pass the run
\* stops with success on that review when its iteration is below
\* max_iterations.
C28_BothLabelsPassWithCriticPass ==
    \A i \in 1..Len(calls) :
        (calls[i].phase = "REVIEWING"
            /\ HoldsBothLabels(calls[i].response.content))
            => /\ calls[i].response.verdict = "PASS"
               /\ (criteria.require_critic_pass
                     /\ calls[i].iteration < criteria.max_iterations)
                     => StopsWithSuccessOn(i)

C28_Witness ==
    /\ pc = "done"
    /\ criteria.require_critic_pass
    /\ criteria.max_iterations = 3
    /\ Len(calls) = 7
    /\ calls[3].response.content = "VERDICT: FAIL"
    /\ calls[7].response.content
          = "VERDICT: PASS or VERDICT: FAIL\nVERDICT: FAIL"
    /\ calls[7].response.verdict = "PASS"
    /\ Status = "completed"
    /\ stop = <<TRUE, "success">>

(***************************************************************************)
(* Properties of run_workflow and run_loop                                 *)
(***************************************************************************)
\* a run_workflow call is under way at position at
InWorkflow(at) ==
    /\ frame # Nothing
    /\ get(frame).op = "run_workflow"
    /\ get(frame).at = at

\* the last call returned was op, and it returned normally
ReturnedFrom(op) ==
    /\ frame = Nothing
    /\ returned # Nothing
    /\ get(returned).op = op
    /\ ~get(returned).raised

\* the turns are those of the first Len(turns) steps of the workflow, in
\* list order, the first on the task and the later ones on the hand-off
StepsInOrder(turns, workflow) ==
    /\ Len(turns) <= Len(workflow)
    /\ \A j \in 1..Len(turns) :
          /\ turns[j].agent_name = workflow[j]
          /\ turns[j].prompt = IF j = 1 THEN "task"
                               ELSE "Based on the above, task"

\* every turn before the last succeeded and the last one failed
FailedAtLast(turns) ==
    /\ turns # <<>>
    /\ ~turns[Len(turns)].success
    /\ \A j \in 1..(Len(turns) - 1) : turns[j].success

\* C29: run_workflow runs its steps in list order and stops at the first
\* step whose turn failed: that turn is recorded, no later step is run and
\* the returned status is "failed"; the returned status is "completed"
\* exactly when every step's turn succeeded, the empty workflow included.
C29_WorkflowStopsAtFailure ==
    /\ InWorkflow("step")
          => LET f == get(frame)
                 conv == heap[f.ref]
             IN /\ Len(conv.turns) = f.i
                /\ StepsInOrder(conv.turns, f.workflow)
                /\ \A j \in 1..Len(conv.turns) : conv.turns[j].success
                /\ conv.status = "active"
    /\ InWorkflow("finish")
          => LET f == get(frame)
                 conv == heap[f.ref]
             IN /\ StepsInOrder(conv.turns, f.workflow)
                /\ FailedAtLast(conv.turns)
                /\ conv.status = "failed"
    /\ ReturnedFrom("run_workflow")
          => LET conv == heap[get(returned).ref]
                 workflow == get(returned).workflow
             IN /\ StepsInOrder(conv.turns, workflow)
                /\ conv.status \in {"completed", "failed"}
                /\ (conv.status = "failed") <=> FailedAtLast(conv.turns)
                /\ (conv.status = "completed")
                      <=> /\ Len(conv.turns) = Len(workflow)
                          /\ \A j \in 1..Len(conv.turns) : conv.turns[j].success

C29_Witness ==
    /\ ReturnedFrom("run_workflow")
    /\ get(returned).workflow = <<"architect", "analyzer", "architect">>
    /\ Len(heap[get(returned).ref].turns) = 2
    /\ heap[get(returned).ref].turns[1].success
    /\ ~heap[get(returned).ref].turns[2].success
    /\ heap[get(returned).ref].status = "failed"

\* a run_loop call is under way
InLoop == frame # Nothing /\ get(frame).op = "run_loop"

\* Number of steps a run_loop call can still take, at most: per agent still
\* to run before the iteration cap one round of the while loop, then the
\* round that leaves the loop and the return.
LoopMeasure(fr) ==
    IF fr = Nothing \/ get(fr).op # "run_loop" THEN 0
    ELSE LET f == get(fr)
             n == Len(f.agents)
             rounds == IF f.iteration < f.max_iterations
                       THEN n * (f.max_iterations - f.iteration)
                               - (f.agent_index % n)
                       ELSE 0
         IN CASE f.at = "first" -> 4 + rounds
              [] f.at = "loop" -> 2 + rounds
              [] f.at = "finish" -> 1

\* the loop's turns: the first agent, then round robin from agents[1 mod n]
RoundRobin(turns, agents) ==
    \A j \in 1..Len(turns) :
        turns[j].agent_name
           = IF j = 1 THEN agents[1]
             ELSE agents[((j - 1) % Len(agents)) + 1]

TurnsBounded(turns, agents, max_iterations) ==
    /\ Len(turns) <= Max(1, max_turns)
    /\ Len(turns) <= 1 + max_iterations * Len(agents)

\* C30: run_loop terminates whatever the stop condition and the backends
\* return: every step of the call strictly decreases LoopMeasure, which
\* is never negative, and a call under way is at a position with a next
\* step; the conversation never holds more than max(1, max_turns) turns
\* nor more than 1 + max_iterations * len(agents); and after the first
\* turn the agents run in round-robin order from agents[1 mod len(agents)].
C30_LoopBounded ==
    /\ [](InLoop
            => LET f == get(frame)
               IN /\ f.at \in {"first", "loop", "finish"}
                  /\ LoopMeasure(frame) >= 1
                  /\ TurnsBounded(heap[f.ref].turns, f.agents,
                                  f.max_iterations)
                  /\ RoundRobin(heap[f.ref].turns, f.agents)
                  /\ (f.at = "first") <=> (heap[f.ref].turns = <<>>))
    /\ [](ReturnedFrom("run_loop")
            => LET conv == heap[get(returned).ref]
               IN /\ conv.status = "completed"
                  /\ conv.turns # <<>>
                  /\ TurnsBounded(conv.turns, get(returned).agents,
                                  get(returned).max_iterations)
                  /\ RoundRobin(conv.turns, get(returned).agents))
    /\ [][InLoop => LoopMeasure(frame') < LoopMeasure(frame)]_vars

C30_Witness ==
    /\ ReturnedFrom("run_loop")
    /\ get(returned).agents = <<"architect", "analyzer">>
    /\ get(returned).max_iterations = 2
    /\ max_turns = 3
    /\ Len(heap[get(returned).ref].turns) = 3
    /\ heap[get(returned).ref].turns[2].agent_name = "analyzer"
    /\ heap[get(returned).ref].turns[3].agent_name = "architect"

\* C22 as stated: the system-patterns document is an append-only log: an
\* entry that append_pattern has recorded is still in the document, at its
\* place, after every later operation on the same Memory Bank other than
\* clear().
C22_PatternsAppendOnly ==
    [][~Returned("clear")'
         => IsPrefix(PatternEntries(memory_bank), PatternEntries(memory_bank'))]_vars

(***************************************************************************)
(* SpecDoc: the operations on the active-context document                  *)
(***************************************************************************)
\* the section argument of append_to_active_context: the name of a
\* subsection in the middle of the document initialize() writes, the name
\* of its last one, a prefix of that name, and a name that is not there
SectionNames == {"Blockers", "Next Steps", "Next", "Notes"}
\* the content argument: a plain line, and a line that mentions a heading
AppendContents == {"Y", "see ## Notes"}

\* bank.append_to_active_context(section, content), lines 174-213; the
\* clock has advanced when the call returns
AppendToActiveContext ==
    /\ clock < MaxClock
    /\ clock' = clock + 1
    /\ \E section \in SectionNames, content \in AppendContents :
          LET out == append_to_active_context(memory_bank, section, content)
          IN /\ memory_bank' = out.bank
             /\ returned' = Some([op |-> "append_to_active_context",
                                  section |-> section, content |-> content,
                                  raised |-> out.raised, at |-> clock])
    /\ UNCHANGED <<unit_vars, max_turns, heap, conversations, frame,
                   criteria, goal, critic_given, pc, iteration, conversation,
                   current_status, context, plan_response, impl_response,
                   review_response, fix_response, stop, calls, compact_calls,
                   failures>>

NextDoc ==
    \/ Initialize
    \/ UpdateActiveContext
    \/ AppendToActiveContext
    \/ ReadActiveContext
    \/ Clear

SpecDoc == InitBank /\ [][NextDoc]_vars

\* the positions of the lines that are subsection headings
HeadingLines(lines) ==
    {i \in 1..Len(lines) : startswith(lines[i], chars("## "))}

\* the subsections of a document, in order: the name after "## " and the
\* lines of the body, up to the next heading, without the empty ones
Subsections(lines) ==
    LET hs == HeadingLines(lines)
        nth(k) == CHOOSE i \in hs : Cardinality({j \in hs : j <= i}) = k
        last(k) == IF k = Cardinality(hs) THEN Len(lines) ELSE nth(k + 1) - 1
    IN [k \in 1..Cardinality(hs) |->
          [name |-> SubSeq(lines[nth(k)], 4, Len(lines[nth(k)])),
           body |-> SelectSeq(SubSeq(lines, nth(k) + 1, last(k)),
                              LAMBDA l : l # <<>>)]]

\* the subsections named name
Named(secs, name) == {k \in 1..Len(secs) : secs[k].name = chars(name)}

\* the step is a call of append_to_active_context that returned, made on
\* a bank that has an active context
AppendReturned ==
    /\ returned' # Nothing
    /\ get(returned').op = "append_to_active_context"
    /\ ~get(returned').raised
    /\ memory_bank.active # Nothing

\* C21 as stated: append_to_active_context(section, content) replaces the
\* body of the subsection of exactly that name by content when there is
\* one, and otherwise appends a new subsection of that name with content at
\* the end; every other subsection keeps its name, position and body.
C21_ReplacesNamedSubsection ==
    [][AppendReturned
         => LET before == Subsections(doc_lines(get(memory_bank.active)))
                after == Subsections(doc_lines(get(memory_bank'.active)))
                call == get(returned')
            IN IF Named(before, call.section) # {}
               THEN /\ Len(after) = Len(before)
                    /\ \A k \in 1..Len(before) :
                          IF k \in Named(before, call.section)
                          THEN /\ after[k].name = before[k].name
                               /\ after[k].body = <<chars(call.content)>>
                          ELSE after[k] = before[k]
               ELSE /\ Len(after) = Len(before) + 1
                    /\ after[Len(after)]
                          = [name |-> chars(call.section),
                             body |-> <<chars(call.content)>>]
                    /\ \A k \in 1..Len(before) : after[k] = before[k]]_vars

(***************************************************************************)
(* SpecRace: two writers on one Memory Bank directory                      *)
(*                                                                         *)
(* Each writer is an Orchestrator process with its own MemoryBank object   *)
(* on the same base_dir.  A call of append_pattern or of                   *)
(* append_to_active_context reads the file (read_text) and later writes it *)
(* (write_text); nothing in the class holds a lock between the two, so the *)
(* steps of the writers interleave freely.                                 *)
(***************************************************************************)
\* the directory has been initialised by a run before the writers start
InitRace ==
    /\ criteria = DefaultCriteria
    /\ NoWriters
    /\ stop_args = Nothing
    /\ stop_result = Nothing
    /\ AgentIdle
    /\ LogIdle
    /\ \E g \in BankGoals, info \in BankInfos :
          MoaIdleOn(initialize(NoFiles, g, info, 0))

\* the variables a step of a writer leaves alone
race_frame == <<stop_vars, agent_vars, log_vars, criteria, goal, critic_given,
                pc, iteration, conversation, current_status, context,
                plan_response, impl_response, review_response, fix_response,
                stop, calls, compact_calls, failures>>

\* append_pattern, lines 223-227: writer w enters the call and reads
\* systemPatterns.md
ReadPatterns(w) ==
    /\ writers[w].at = "idle"
    /\ \E pattern_name \in PatternNames, pattern_content \in PatternContents :
          writers' = [writers EXCEPT ![w] =
                         [at |-> "read", op |-> "append_pattern",
                          name |-> pattern_name, content |-> pattern_content,
                          current |-> Some(read_patterns(memory_bank))]]
    /\ UNCHANGED <<memory_bank, race_frame>>

WritePatterns_rereading(w) ==
    /\ writers[w].at = "read"
    /\ writers[w].op = "append_pattern"
    /\ memory_bank' = patterns_written(memory_bank, read_patterns(memory_bank),
                                       writers[w].name, writers[w].content)
    /\ writers' = [writers EXCEPT ![w].at = "done"]
    /\ UNCHANGED race_frame

\* append_pattern, lines 229-230: writer w writes the text it read with its
\* entry after it, and returns
WritePatterns(w) ==
    /\ writers[w].at = "read"
    /\ writers[w].op = "append_pattern"
    /\ memory_bank' = patterns_written(memory_bank, get(writers[w].current),
                                       writers[w].name, writers[w].content)
    /\ writers' = [writers EXCEPT ![w].at = "done"]
    /\ UNCHANGED race_frame

\* append_to_active_context, line 182: writer w enters the call and reads
\* activeContext.md
ReadActive(w) ==
    /\ writers[w].at = "idle"
    /\ \E section \in SectionNames, content \in AppendContents :
          writers' = [writers EXCEPT ![w] =
                         [at |-> "read", op |-> "append_to_active_context",
                          name |-> section, content |-> content,
                          current |-> read_active_context(memory_bank)]]
    /\ UNCHANGED <<memory_bank, race_frame>>

\* append_to_active_context, lines 185-213: writer w writes the text it
\* computed from what it read, and returns; without the directory
\* write_text raises
WriteActive(w) ==
    /\ writers[w].at = "read"
    /\ writers[w].op = "append_to_active_context"
    /\ memory_bank' = IF dir_exists(memory_bank)
                      THEN active_written(memory_bank, writers[w].current,
                                          writers[w].name, writers[w].content)
                      ELSE memory_bank
    /\ writers' = [writers EXCEPT ![w].at = "done"]
    /\ UNCHANGED race_frame

NextRace ==
    \/ \E w \in WriterIds : ReadPatterns(w)
    \/ \E w \in WriterIds : WritePatterns(w)
    \/ \E w \in WriterIds : ReadActive(w)
    \/ \E w \in WriterIds : WriteActive(w)

SpecRace == InitRace /\ [][NextRace]_vars

\* the file the operation reads and writes, Nothing when it is not there
FileOf(bank, op) ==
    IF op = "append_pattern" THEN bank.patterns ELSE bank.active

\* file holds what the call of writer record wr appends: the entry
\* "## name / content" of append_pattern, the content line of
\* append_to_active_context
HasEntry(file, wr) ==
    /\ file # Nothing
    /\ IF wr.op = "append_pattern"
       THEN \E i \in 1..Len(get(file).entries) :
               get(file).entries[i]
                   = [name |-> wr.name, content |-> wr.content]
       ELSE \E i \in 1..Len(doc_lines(get(file))) :
               doc_lines(get(file))[i] = chars(wr.content)

\* the calls of two writers are of the same operation and append
\* different things
SameFileOtherEntry(wr, other) ==
    /\ wr.op = other.op
    /\ IF wr.op = "append_pattern"
       THEN wr.name # other.name \/ wr.content # other.content
       ELSE wr.content # other.content

\* the step is the write of writer w
Writes(w) == writers[w].at = "read" /\ writers'[w].at = "done"

\* C23: nothing protects the file between the read and the write of a
\* call: when writer w read the file before another writer's call put its
\* entry there, and writes after that call has returned, the file that w
\* writes is without the other writer's entry -- the entry is lost.
C23_StaleWriteLosesEntry ==
    [][\A w \in WriterIds : \A o \in WriterIds \ {w} :
          (/\ Writes(w)
           /\ writers[o].at = "done"
           /\ SameFileOtherEntry(writers[w], writers[o])
           /\ ~HasEntry(writers[w].current, writers[o]))
          => /\ ~HasEntry(FileOf(memory_bank', writers[w].op), writers[o])
             /\ HasEntry(FileOf(memory_bank', writers[w].op), writers[w])]_vars

\* Both writers' append_pattern calls have returned, and the final document
\* holds the entry of one and not the entry of the other
C23_Witness ==
    \E w \in WriterIds : \E o \in WriterIds \ {w} :
       /\ writers[w].at = "done"
       /\ writers[o].at = "done"
       /\ writers[w].op = "append_pattern"
       /\ SameFileOtherEntry(writers[w], writers[o])
       /\ HasEntry(memory_bank.patterns, writers[w])
       /\ ~HasEntry(memory_bank.patterns, writers[o])

(***************************************************************************)
(* SpecResume: run_moa_workflow on the Memory Bank of an earlier run       *)
(*                                                                         *)
(* resume_workflow (main.py) makes a MemoryBank on the directory of an     *)
(* earlier run, takes the goal from its product context and calls          *)
(* run_moa_workflow with that goal and that bank.                          *)
(***************************************************************************)
\* what the earlier run wrote after the review of its first iteration,
\* which did not pass
EarlierProgress ==
    ProgressContent(1, [content |-> "plan", verdict |-> None],
                    [content |-> "code", verdict |-> None],
                    [content |-> "VERDICT: FAIL", verdict |-> "FAIL"])

\* the files the earlier run left: its goal, its last progress report and
\* the patterns template
EarlierBank ==
    update_active_context(
        initialize(NoFiles, CHOOSE g \in Goals : TRUE, "", 0),
        EarlierProgress, 0)

\* main.py lines 351-397: a new Orchestrator on the existing Memory Bank
InitResume ==
    /\ criteria \in CriteriaSet
    /\ NoWriters
    /\ stop_args = Nothing
    /\ stop_result = Nothing
    /\ AgentIdle
    /\ LogIdle
    /\ MoaIdleOn(EarlierBank)

SpecResume == InitResume /\ [][Next]_vars

\* the context is in hand for the first PLANNING call of the run
FirstPlanning == pc = "planning" /\ iteration = 1

\* C25 as stated: in a run started on the Memory Bank of an earlier run,
\* the context passed to the first PLANNING call contains the earlier
\* run's active context, and the product context stays as the earlier run
\* wrote it.
C25_ResumeKeepsEarlierContext ==
    /\ [](FirstPlanning => get(context).active = EarlierBank.active)
    /\ [][memory_bank'.product = memory_bank.product]_vars

====
